---- MODULE Spec2Model ----
(***************************************************************************)
(* llama.cpp DDS transport: the server dispatch (dds_poll_loop and         *)
(* process_dds_request of tools/server/server.cpp), the request queue of   *)
(* DDSBridge (dds/dds_bridge.cpp) and the response-matching loops of the   *)
(* DDS clients (dds/benchmark_final.cpp, dds/benchmark_stream_dds.cpp,     *)
(* dds/test_client.cpp).                                                   *)
(*                                                                         *)
(* Text is a sequence of characters, so that concatenation, emptiness and  *)
(* order of chunks are what they are in the code.  A request_id is a       *)
(* positive number standing for a UUID string; the order of the numbers is *)
(* the lexicographic order of the strings (std::map iterates in it), and 0 *)
(* stands for a null request_id pointer of a wire sample.                  *)
(***************************************************************************)
EXTENDS Integers, Sequences, FiniteSets, TLC

\* ---- bounds of the model ------------------------------------------------
\* requests the request reader hands to the bridge in one run
MaxArrivals == 2
\* partial results the engine delivers for one task
MaxResults == 2
\* largest n_decoded the engine reports
MaxDecoded == 1
\* --dds-timeout of the run, in seconds (common_params::dds_timeout_secs)
DdsTimeoutSecs == 4

\* ---- program constants --------------------------------------------------
\* recv_with_timeout({task_id}, 5)
RecvTimeoutSecs == 5

Ids == {1, 2}
Chars == {"a", "b"}
Chunks == {<<>>} \cup {<<c>> : c \in Chars}
StopTypes == {"STOP_TYPE_EOS", "STOP_TYPE_LIMIT", "STOP_TYPE_WORD"}
\* std::optional<std::string> finish_reason without a value
NoReason == "nullopt"
NoTask == -1

\* llama_dds::ChatCompletionRequest, the fields the dispatch reads
ChatCompletionRequest == [request_id : Ids, stream : BOOLEAN, max_tokens : {0, MaxDecoded}]
\* no record: nothing converted yet
NoRecord == [kind |-> "none"]
NoRequest == [request_id |-> 0, stream |-> FALSE, max_tokens |-> 0]

VARIABLES
    has_meta,            \* meta != nullptr: model mode (TRUE) or router mode (FALSE)
    dds_running,         \* main's std::atomic<bool> dds_running
    pending_requests_,   \* DDSBridge::pending_requests_, request_id -> request
    pending_count_,      \* DDSBridgeImpl::pending_count_
    readerPc,            \* reader thread inside DDSBridge::handle_request
    readerReq,           \* the request handle_request is enqueuing
    arrivals,            \* requests received so far
    pollPc,              \* position of the dispatch thread
    dds_req,             \* the request process_dds_request works on
    task_id,             \* process_dds_request's task_id
    generated_text,
    prompt_tokens,
    completion_tokens,
    finish_reason,
    is_final,
    elapsed,             \* seconds since start_wait, as the loop head reads them:
                         \* a recv_with_timeout that returns nullptr took its 5 s,
                         \* one that returns a result took no time
    next_id,             \* server_queue id counter
    waiting_task_ids,    \* server_response waiting set
    posted,              \* task ids posted to server_queue
    received,            \* results recv_with_timeout returned in this call
    sent,                \* samples this call passed to DDSBridge::send_response
    outcome,             \* how the last process_dds_request call ended
    client,              \* which client program runs
    req_id,              \* the client's req_id: the id of its outstanding request
    reader,              \* samples in the client's response reader, oldest first
    delivered,           \* samples delivered to the client's reader so far
    clientPc,            \* position of the client
    accepted             \* samples the client took as the answer to req_id

VARIABLES
    mutex_,              \* holder of DDSBridge::mutex_: "free", "reader" or a caller
    callPc,              \* per calling thread: its position inside
                         \* pop_pending_request or wait_for_request
    popIt,               \* per caller: the key its iterator it points to, 0 for none
    out_request,         \* per caller: its out_request
    ret,                 \* per caller: how its last call returned
    enqueued,            \* history: the requests handle_request has stored, in order
    returned,            \* history: the pops that returned true, in order
    mainPc,              \* position of the thread that owns the bridge (main)
    mainCall,            \* what main is inside of: "stop", a destructor, or "none"
    stops,               \* calls of DDSBridge::stop so far
    running_,            \* DDSBridge::running_
    impl_running_,       \* DDSBridgeImpl::running_
    transport_running_,  \* DDSTransportImpl::running_
    worker_thread_,      \* DDSBridgeImpl::worker_thread_, the heartbeat thread
    reader_thread_,      \* DDSTransportImpl::reader_thread_
    entity,              \* DDSTransportImpl's dds_entity_t members, by name
    deletes,             \* history: dds_delete calls so far, per member
    joins,               \* history: join() calls so far, per thread
    model_ready_,        \* DDSBridgeImpl::model_ready_
    total_slots_,        \* DDSBridgeImpl::total_slots_
    published,           \* the ServerStatus last passed to publish_status
    sendPc,              \* position of the thread inside DDSBridge::send_response
    sends                \* calls of DDSBridge::send_response so far

VARIABLES
    facade_running_,     \* DDSTransport::running_, what is_running() returns
    response_reader_thread_, \* DDSTransportImpl::response_reader_thread_ (client mode)
    creates,             \* history: successful dds_create_* calls so far, per member
    starts,              \* calls of start_server / start_client so far
    startRet,            \* how the last start call ended: "true", "false",
                         \* "terminate" (std::terminate), "none" before the first
    native,              \* the native record handed to to_llama_request / _response
    wire,                \* the IDL C record the conversion built
    back,                \* the native record to_request / to_response built from it
    frees,               \* history: free() calls so far, per allocation of the record
    wirePc,              \* position of the thread that converts and frees
    uuidPc,              \* position inside generate_uuid
    bytes,               \* generate_uuid's bytes[], as far as the loop has filled it
    buf                  \* generate_uuid's buf after snprintf, a sequence of characters

VARIABLES
    deleteLog,           \* history: the members the last DDSTransportImpl::stop passed
                         \* to dds_delete, in the order of the calls
    rlPc,                \* position of the reader thread inside read_loop
    rhc,                 \* samples in the request reader's cache, oldest first
    data_available,      \* the request reader's DATA_AVAILABLE status
    loaned,              \* read_loop's samples[]: what dds_take has lent, <<>> for none
    request,             \* read_loop's local `request`, the copy to_request made
    loans,               \* history: successful takes and dds_return_loan calls so far
    callbacks,           \* history: the requests request_callback_ was called with
    status_mutex_,       \* holder of DDSBridgeImpl::status_mutex_: "free", "main", "worker"
    setCall,             \* the set_model_info call in progress: position and arguments
    model_loaded_,       \* DDSBridgeImpl::model_loaded_
    status,              \* the heartbeat thread's local `status`, as far as it is built
    infoCalls            \* history: what the set_model_info calls so far had to store

queueDetailVars == <<mutex_, callPc, popIt, out_request, ret, enqueued, returned>>
startVars == <<facade_running_, response_reader_thread_, creates, starts, startRet>>
lifecycleVars == <<mainPc, mainCall, stops, running_, impl_running_, transport_running_,
                   worker_thread_, reader_thread_, entity, deletes, joins,
                   model_ready_, total_slots_, published, sendPc, sends, startVars>>
codecVars == <<native, wire, back, frees, wirePc, uuidPc, bytes, buf>>
readLoopVars == <<rlPc, rhc, data_available, loaned, request, loans, callbacks>>
infoVars == <<status_mutex_, setCall, model_loaded_, status, infoCalls>>
loopVars == <<deleteLog, readLoopVars, infoVars>>
detailVars == <<queueDetailVars, lifecycleVars, codecVars, loopVars>>

bridgeVars == <<pending_requests_, pending_count_, readerPc, readerReq, arrivals>>
callVars == <<dds_req, task_id, generated_text, prompt_tokens, completion_tokens,
              finish_reason, is_final, elapsed, received, sent, outcome>>
queueVars == <<next_id, waiting_task_ids, posted>>
serverVars == <<has_meta, dds_running, bridgeVars, pollPc, callVars, queueVars>>
clientVars == <<client, req_id, reader, delivered, clientPc, accepted>>
\* what neither the bridge nor its threads touch
otherVars == <<clientVars, codecVars, loopVars>>
\* what the server's threads never touch
outsideVars == <<clientVars, detailVars>>
vars == <<serverVars, clientVars, detailVars>>

\* ---- the external inference engine ---------------------------------------
\* n_prompt_tokens the engine reports for a task
EnginePromptTokens == 1

\* server_task_result_cmpl_partial: a text chunk (possibly empty) or, with
\* is_progress, a prompt-processing report that carries no text
PartialResults ==
    [kind : {"partial"}, content : Chunks, n_decoded : 0..MaxDecoded,
     stop : {"STOP_TYPE_NONE"}, is_progress : {FALSE}]
    \cup [kind : {"partial"}, content : {<<>>}, n_decoded : {0},
          stop : {"STOP_TYPE_NONE"}, is_progress : {TRUE}]
\* server_task_result_cmpl_final
FinalResults ==
    [kind : {"final"}, content : Chunks, n_decoded : 0..MaxDecoded,
     stop : StopTypes, is_progress : {FALSE}]
\* server_task_result_error; content holds err_msg
ErrorResults ==
    [kind : {"error"}, content : {<<"e">>}, n_decoded : {0},
     stop : {"STOP_TYPE_NONE"}, is_progress : {FALSE}]

NumPartials(log) == Len(SelectSeq(log, LAMBDA r : r.kind = "partial"))

\* ---- pure parts of process_dds_request ------------------------------------
Response(id, content, final, reason, pt, ct) ==
    [request_id |-> id, content |-> content, is_final |-> final,
     finish_reason |-> reason, prompt_tokens |-> pt, completion_tokens |-> ct]

\* variant: the tokenization error is sent as a chunk, is_final left false
TokenizeFailureNotFinal(req, what) ==
    Response(req.request_id, <<"[DDS] Error: Failed to tokenize prompt: ", what>>,
             FALSE, "error", 0, 0)

\* the response sent when tokenization fails
TokenizeFailureResponse(req, what) ==
    Response(req.request_id, <<"[DDS] Error: Failed to tokenize prompt: ", what>>,
             TRUE, "error", 0, 0)

\* variant: the two case labels of the switch exchanged
FinishReasonSwapped(stop) ==
    CASE stop = "STOP_TYPE_EOS" -> "length"
      [] stop = "STOP_TYPE_LIMIT" -> "stop"
      [] OTHER -> "stop"

\* switch (cmpl_final->stop)
FinishReasonOf(stop) ==
    CASE stop = "STOP_TYPE_EOS" -> "stop"
      [] stop = "STOP_TYPE_LIMIT" -> "length"
      [] OTHER -> "stop"

\* a streamed chunk: is_final = false, finish_reason left without a value
Chunk(req, content, pt, ct) ==
    Response(req.request_id, content, FALSE, NoReason, pt, ct)

\* variant: the trailing content of a final result is never streamed
FinalChunksNone(req, r) == <<>>

\* samples sent while handling a final result
FinalChunks(req, r) ==
    IF req.stream /\ r.content # <<>>
    THEN <<Chunk(req, r.content, EnginePromptTokens, r.n_decoded)>>
    ELSE <<>>

\* generated_text after a final result
FinalText(req, r, text) ==
    IF req.stream THEN <<>> ELSE r.content

\* variant: partial chunks are published whatever dds_req.stream says
PartialChunksAnyMode(req, r) ==
    IF r.content # <<>>
    THEN <<Chunk(req, r.content, EnginePromptTokens, r.n_decoded)>>
    ELSE <<>>

\* variant: the test for empty content is missing
PartialChunksEvenEmpty(req, r) ==
    IF req.stream
    THEN <<Chunk(req, r.content, EnginePromptTokens, r.n_decoded)>>
    ELSE <<>>

\* samples sent while handling a partial result
PartialChunks(req, r) ==
    IF req.stream /\ r.content # <<>>
    THEN <<Chunk(req, r.content, EnginePromptTokens, r.n_decoded)>>
    ELSE <<>>

\* variant: the chunk is assigned to generated_text, not appended
PartialTextReplaced(req, r, text) ==
    IF req.stream THEN text ELSE r.content

\* generated_text after a partial result
PartialText(req, r, text) ==
    IF req.stream THEN text ELSE text \o r.content

\* a partial result that ends a non-streaming session
PartialIsFinal(req, r) ==
    ~req.stream /\ ~r.is_progress /\ r.n_decoded >= req.max_tokens

\* variant: the message is passed on without its "[Error: ...]" frame
ErrorTextBare(r) == r.content

\* generated_text after an error result
ErrorText(r) == <<"[Error: ">> \o r.content \o <<"]">>

\* variant: the terminal response leaves completion_tokens at its default
TerminalResponseNoTokens(req, text, reason, pt, ct) ==
    Response(req.request_id, text, TRUE, reason, pt, 0)

\* the terminal response built after the receive loop
TerminalResponse(req, text, reason, pt, ct) ==
    Response(req.request_id, text, TRUE, reason, pt, ct)

\* while (!is_final) { if (elapsed > timeout_secs) break; ... }
LoopContinues(final, secs) == ~final /\ ~(secs > DdsTimeoutSecs)

\* ---- DDSBridge -------------------------------------------------------------
\* DDSBridgeImpl::dec_pending, once per sample
DecPending(count, n) == IF count > n THEN count - n ELSE 0

\* pending_requests_.begin(): the entry with the smallest key
Begin(m) == CHOOSE k \in DOMAIN m : \A j \in DOMAIN m : k <= j

\* DDSBridge::send_response for each sample of samples, in order
SendResponses(samples) ==
    /\ pending_count_' = DecPending(pending_count_, Len(samples))
    /\ sent' = sent \o samples

\* no client program is modelled alongside the server
ClientOff ==
    /\ client = "none"
    /\ req_id = 0
    /\ reader = <<>>
    /\ delivered = 0
    /\ clientPc = "off"
    /\ accepted = <<>>

\* ---- the bridge around the dispatch --------------------------------------------
\* threads that call pop_pending_request; the first is dds_poll_loop's, the
\* only one that also calls wait_for_request
Callers == {"dispatch", "other"}
Waiters == {"dispatch"}

\* variant: the participant is deleted first, its children after it
EntityOrderParticipantFirst ==
    <<"participant_", "response_writer_", "status_writer_", "request_reader_",
      "request_writer_", "response_reader_", "status_reader_", "request_topic_",
      "response_topic_", "status_topic_">>

\* the dds_entity_t members DDSTransportImpl::stop goes through, in its order
EntityOrder ==
    <<"response_writer_", "status_writer_", "request_reader_", "request_writer_",
      "response_reader_", "status_reader_", "request_topic_", "response_topic_",
      "status_topic_", "participant_">>
Entities == {EntityOrder[i] : i \in 1..Len(EntityOrder)}
\* the members start_server creates, in its order
ServerEntityOrder ==
    <<"participant_", "request_topic_", "response_topic_", "status_topic_",
      "request_reader_", "response_writer_", "status_writer_">>
ServerEntities == {ServerEntityOrder[i] : i \in 1..Len(ServerEntityOrder)}
Threads == {"worker_thread_", "reader_thread_", "response_reader_thread_",
            "dds_poll_thread"}

\* llama_dds::ServerStatus, the fields the heartbeat computes
ServerStatus(idle, processing, ready) ==
    [slots_idle |-> idle, slots_processing |-> processing, ready |-> ready]
\* publish_status has not been called yet
NoStatus == [slots_idle |-> 0, slots_processing |-> 0, ready |-> FALSE, none |-> TRUE]

\* nothing is being converted, no id is being generated
CodecIdle ==
    /\ native = NoRecord
    /\ wire = NoRecord
    /\ back = NoRecord
    /\ frees = <<>>
    /\ wirePc = "off"
    /\ uuidPc = "off"
    /\ bytes = <<>>
    /\ buf = <<>>

\* no set_model_info call is in progress
NoCall == [pc |-> "idle"]
\* the heartbeat's local status before any of its fields is assigned; total is
\* the total_slots_ that slots_idle was computed from
NoSnapshot ==
    [built |-> 0, slots_processing |-> 0, slots_idle |-> 0, total |-> 0,
     model_loaded |-> "", ready |-> FALSE]

\* stop has not run, read_loop is at its loop head and nothing has reached the
\* request reader, nobody holds status_mutex_
LoopsIdle ==
    /\ deleteLog = <<>>
    /\ rlPc = "loop"
    /\ rhc = <<>>
    /\ data_available = FALSE
    /\ loaned = <<>>
    /\ request = NoRequest
    /\ loans = [taken |-> 0, returned |-> 0]
    /\ callbacks = <<>>
    /\ status_mutex_ = "free"
    /\ setCall = NoCall
    /\ model_loaded_ = IF model_ready_ THEN "m" ELSE ""
    /\ status = NoSnapshot
    /\ infoCalls = IF model_ready_ THEN {<<"m", TRUE, total_slots_>>} ELSE {}

\* no thread is inside pop_pending_request or wait_for_request
QueueIdle ==
    /\ mutex_ = "free"
    /\ callPc = [c \in Callers |-> "idle"]
    /\ popIt = [c \in Callers |-> 0]
    /\ out_request = [c \in Callers |-> NoRequest]
    /\ ret = [c \in Callers |-> "none"]
    /\ enqueued = <<>>
    /\ returned = <<>>

\* DDSBridge::start has returned true: all server entities exist, the reader
\* thread and the heartbeat thread run
BridgeStarted ==
    /\ mainCall = "none"
    /\ stops = 0
    /\ running_ = TRUE
    /\ impl_running_ = TRUE
    /\ transport_running_ = TRUE
    /\ worker_thread_ = "loop"
    /\ reader_thread_ = "running"
    /\ entity = [e \in Entities |-> IF e \in ServerEntities THEN 1 ELSE 0]
    /\ deletes = [e \in Entities |-> 0]
    /\ joins = [t \in Threads |-> 0]
    /\ published = NoStatus
    /\ sendPc = "idle"
    /\ sends = 0
    /\ facade_running_ = TRUE
    /\ response_reader_thread_ = "none"
    /\ creates = [e \in Entities |-> IF e \in ServerEntities THEN 1 ELSE 0]
    /\ starts = 1
    /\ startRet = "true"

\* main has started the poll thread and sits in ctx_server.start_loop()
BridgeServing ==
    /\ BridgeStarted
    /\ mainPc = "serving"
    /\ model_ready_ = has_meta
    /\ total_slots_ = 1

\* ---- initial state: bridge started, poll thread about to run ---------------
ServerInit ==
    /\ has_meta \in BOOLEAN
    /\ dds_running = TRUE
    /\ pending_requests_ = << >>
    /\ pending_count_ = 0
    /\ readerPc = "idle"
    /\ readerReq = NoRequest
    /\ arrivals = 0
    /\ pollPc = "loop"
    /\ dds_req = NoRequest
    /\ task_id = NoTask
    /\ generated_text = <<>>
    /\ prompt_tokens = 0
    /\ completion_tokens = 0
    /\ finish_reason = "stop"
    /\ is_final = FALSE
    /\ elapsed = 0
    /\ next_id = 0
    /\ waiting_task_ids = {}
    /\ posted = {}
    /\ received = <<>>
    /\ sent = <<>>
    /\ outcome = "none"

Init == ServerInit /\ ClientOff /\ QueueIdle /\ BridgeServing /\ CodecIdle /\ LoopsIdle

\* an exception that left dds_poll_loop ended the process (std::terminate)
Alive == pollPc # "terminated"

\* ---- reader thread: DDSBridge::handle_request ------------------------------
\* pending_requests_[request.request_id] = request, under mutex_
HandleRequestInsert(req) ==
    /\ Alive
    /\ readerPc = "idle"
    /\ arrivals < MaxArrivals
    /\ pending_requests_' =
           [k \in DOMAIN pending_requests_ \cup {req.request_id} |->
               IF k = req.request_id THEN req ELSE pending_requests_[k]]
    /\ readerPc' = "inserted"
    /\ readerReq' = req
    /\ arrivals' = arrivals + 1
    /\ UNCHANGED <<outsideVars, has_meta, dds_running, pending_count_, pollPc, callVars, queueVars>>

\* pimpl_->inc_pending(); cv_pending_.notify_one()
HandleRequestNotify ==
    /\ Alive
    /\ readerPc = "inserted"
    /\ pending_count_' = pending_count_ + 1
    /\ readerPc' = "idle"
    /\ readerReq' = NoRequest
    /\ UNCHANGED <<outsideVars, has_meta, dds_running, pending_requests_, arrivals, pollPc,
                   callVars, queueVars>>

\* ---- main thread: dds_running = false at shutdown ---------------------------
Shutdown ==
    /\ Alive
    /\ dds_running
    /\ dds_running' = FALSE
    /\ UNCHANGED <<outsideVars, has_meta, bridgeVars, pollPc, callVars, queueVars>>

\* ---- dispatch thread: dds_poll_loop ------------------------------------------
\* variant: the loop goes on whatever the flag holds
PollCheckAlways ==
    /\ pollPc = "loop"
    /\ pollPc' = "wait"
    /\ UNCHANGED <<outsideVars, has_meta, dds_running, bridgeVars, callVars, queueVars>>

\* while (running->load())
PollCheck ==
    /\ pollPc = "loop"
    /\ pollPc' = IF dds_running THEN "wait" ELSE "stopped"
    /\ UNCHANGED <<outsideVars, has_meta, dds_running, bridgeVars, callVars, queueVars>>

\* dds_bridge->wait_for_request(100 ms) returns: a request is pending, or the
\* 100 ms have passed
WaitForRequest ==
    /\ pollPc = "wait"
    /\ pollPc' = "pop"
    /\ UNCHANGED <<outsideVars, has_meta, dds_running, bridgeVars, callVars, queueVars>>

\* dds_bridge->pop_pending_request(req); on success process_dds_request starts
\* with its locals fresh
PopPendingRequest ==
    /\ pollPc = "pop"
    /\ IF DOMAIN pending_requests_ = {}
       THEN /\ pollPc' = "loop"
            /\ UNCHANGED <<pending_requests_, callVars>>
       ELSE LET it == Begin(pending_requests_) IN
            /\ dds_req' = pending_requests_[it]
            /\ pending_requests_' =
                   [k \in DOMAIN pending_requests_ \ {it} |-> pending_requests_[k]]
            /\ pollPc' = "render"
            /\ task_id' = NoTask
            /\ generated_text' = <<>>
            /\ prompt_tokens' = 0
            /\ completion_tokens' = 0
            /\ finish_reason' = "stop"
            /\ is_final' = FALSE
            /\ elapsed' = 0
            /\ received' = <<>>
            /\ sent' = <<>>
            /\ outcome' = "running"
    /\ UNCHANGED <<outsideVars, has_meta, dds_running, pending_count_, readerPc, readerReq,
                   arrivals, queueVars>>

\* ---- dispatch thread: process_dds_request ------------------------------------
\* the prompt: oaicompat_chat_params_parse when meta != nullptr (it may throw,
\* and nothing catches it), the built-in template otherwise
RenderPrompt ==
    /\ pollPc = "render"
    /\ \/ /\ pollPc' = "tokenize"
          /\ UNCHANGED outcome
       \/ /\ has_meta
          /\ pollPc' = "terminated"
          /\ outcome' = "exception"
    /\ UNCHANGED <<outsideVars, has_meta, dds_running, bridgeVars, queueVars, dds_req, task_id,
                   generated_text, prompt_tokens, completion_tokens, finish_reason,
                   is_final, elapsed, received, sent>>

\* tokenize_input_prompts inside try/catch: on failure one error response, return
Tokenize ==
    /\ pollPc = "tokenize"
    /\ \/ /\ pollPc' = "task"
          /\ UNCHANGED <<pending_count_, sent, outcome>>
       \/ \E what \in {"empty", "thrown"} :
            /\ SendResponses(<<TokenizeFailureResponse(dds_req, what)>>)
            /\ pollPc' = "loop"
            /\ outcome' = "tokenize_failed"
    /\ UNCHANGED <<outsideVars, has_meta, dds_running, pending_requests_, readerPc, readerReq,
                   arrivals, queueVars, dds_req, task_id, generated_text,
                   prompt_tokens, completion_tokens, finish_reason, is_final,
                   elapsed, received>>

\* task.id = queue_tasks->get_new_id(); then the sampling parameters:
\* params_from_json_cmpl when meta and params_base are there (it may throw, and
\* nothing catches it), two defaults otherwise
CreateTask ==
    /\ pollPc = "task"
    /\ next_id' = next_id + 1
    /\ \/ /\ task_id' = next_id
          /\ pollPc' = "add_waiting"
          /\ UNCHANGED outcome
       \/ /\ has_meta
          /\ pollPc' = "terminated"
          /\ outcome' = "exception"
          /\ UNCHANGED task_id
    /\ UNCHANGED <<outsideVars, has_meta, dds_running, bridgeVars, waiting_task_ids, posted,
                   dds_req, generated_text, prompt_tokens, completion_tokens,
                   finish_reason, is_final, elapsed, received, sent>>

\* variant: the task is posted without its id being registered first
AddWaitingTaskIdNone ==
    /\ pollPc = "add_waiting"
    /\ pollPc' = "post"
    /\ UNCHANGED <<outsideVars, has_meta, dds_running, bridgeVars, callVars, queueVars>>

\* queue_results->add_waiting_task_id(task_id)
AddWaitingTaskId ==
    /\ pollPc = "add_waiting"
    /\ waiting_task_ids' = waiting_task_ids \cup {task_id}
    /\ pollPc' = "post"
    /\ UNCHANGED <<outsideVars, has_meta, dds_running, bridgeVars, callVars, next_id, posted>>

\* queue_tasks->post(std::move(task)); the locals of the receive loop
PostTask ==
    /\ pollPc = "post"
    /\ posted' = posted \cup {task_id}
    /\ pollPc' = IF LoopContinues(is_final, elapsed) THEN "recv" ELSE "terminal"
    /\ UNCHANGED <<outsideVars, has_meta, dds_running, bridgeVars, callVars, next_id,
                   waiting_task_ids>>

\* one iteration of the receive loop in which recv_with_timeout returns nullptr
\* after its 5 seconds
RecvNull ==
    /\ pollPc = "recv"
    /\ elapsed' = elapsed + RecvTimeoutSecs
    /\ pollPc' = IF LoopContinues(is_final, elapsed') THEN "recv" ELSE "terminal"
    /\ UNCHANGED <<outsideVars, has_meta, dds_running, bridgeVars, queueVars, dds_req, task_id,
                   generated_text, prompt_tokens, completion_tokens, finish_reason,
                   is_final, received, sent, outcome>>

\* one iteration in which recv_with_timeout returns a final result
RecvFinal(r) ==
    /\ pollPc = "recv"
    /\ received' = Append(received, r)
    /\ prompt_tokens' = EnginePromptTokens
    /\ completion_tokens' = r.n_decoded
    /\ finish_reason' = FinishReasonOf(r.stop)
    /\ SendResponses(FinalChunks(dds_req, r))
    /\ generated_text' = FinalText(dds_req, r, generated_text)
    /\ is_final' = TRUE
    /\ pollPc' = IF LoopContinues(is_final', elapsed) THEN "recv" ELSE "terminal"
    /\ UNCHANGED <<outsideVars, has_meta, dds_running, pending_requests_, readerPc, readerReq,
                   arrivals, queueVars, dds_req, task_id, elapsed, outcome>>

\* one iteration in which recv_with_timeout returns a partial result
RecvPartial(r) ==
    /\ pollPc = "recv"
    /\ NumPartials(received) < MaxResults
    /\ received' = Append(received, r)
    /\ prompt_tokens' = EnginePromptTokens
    /\ completion_tokens' = r.n_decoded
    /\ SendResponses(PartialChunks(dds_req, r))
    /\ generated_text' = PartialText(dds_req, r, generated_text)
    /\ is_final' = PartialIsFinal(dds_req, r)
    /\ finish_reason' = IF PartialIsFinal(dds_req, r) THEN "stop" ELSE finish_reason
    /\ pollPc' = IF LoopContinues(is_final', elapsed) THEN "recv" ELSE "terminal"
    /\ UNCHANGED <<outsideVars, has_meta, dds_running, pending_requests_, readerPc, readerReq,
                   arrivals, queueVars, dds_req, task_id, elapsed, outcome>>

\* one iteration in which recv_with_timeout returns an error result
RecvError(r) ==
    /\ pollPc = "recv"
    /\ received' = Append(received, r)
    /\ generated_text' = ErrorText(r)
    /\ finish_reason' = "error"
    /\ is_final' = TRUE
    /\ pollPc' = IF LoopContinues(is_final', elapsed) THEN "recv" ELSE "terminal"
    /\ UNCHANGED <<outsideVars, has_meta, dds_running, bridgeVars, queueVars, dds_req, task_id,
                   prompt_tokens, completion_tokens, elapsed, sent, outcome>>

\* after the loop: the terminal response
SendTerminal ==
    /\ pollPc = "terminal"
    /\ SendResponses(<<TerminalResponse(dds_req, generated_text, finish_reason,
                                        prompt_tokens, completion_tokens)>>)
    /\ pollPc' = "remove"
    /\ UNCHANGED <<outsideVars, has_meta, dds_running, pending_requests_, readerPc, readerReq,
                   arrivals, queueVars, dds_req, task_id, generated_text,
                   prompt_tokens, completion_tokens, finish_reason, is_final,
                   elapsed, received, outcome>>

\* variant: the call returns and leaves its id in the waiting set
RemoveWaitingTaskIdSkipped ==
    /\ pollPc = "remove"
    /\ pollPc' = "loop"
    /\ outcome' = "returned"
    /\ UNCHANGED <<outsideVars, has_meta, dds_running, bridgeVars, queueVars, dds_req,
                   task_id, generated_text, prompt_tokens, completion_tokens,
                   finish_reason, is_final, elapsed, received, sent>>

\* queue_results->remove_waiting_task_id(task_id); return to dds_poll_loop
RemoveWaitingTaskId ==
    /\ pollPc = "remove"
    /\ waiting_task_ids' = waiting_task_ids \ {task_id}
    /\ pollPc' = "loop"
    /\ outcome' = "returned"
    /\ UNCHANGED <<outsideVars, has_meta, dds_running, bridgeVars, next_id, posted, dds_req,
                   task_id, generated_text, prompt_tokens, completion_tokens,
                   finish_reason, is_final, elapsed, received, sent>>

\* the results the engine delivers in the runs of the whole server: one text
\* chunk per partial result, one final result, one error
SysFinalResults ==
    {r \in FinalResults :
        r.content = <<"a">> /\ r.n_decoded = MaxDecoded /\ r.stop = "STOP_TYPE_EOS"}
SysPartialResults ==
    {r \in PartialResults : r.content = <<"b">> /\ r.n_decoded = 0}

Next ==
    \/ \E req \in ChatCompletionRequest : HandleRequestInsert(req)
    \/ HandleRequestNotify
    \/ Shutdown
    \/ PollCheck
    \/ WaitForRequest
    \/ PopPendingRequest
    \/ RenderPrompt
    \/ Tokenize
    \/ CreateTask
    \/ AddWaitingTaskId
    \/ PostTask
    \/ RecvNull
    \/ \E r \in SysFinalResults : RecvFinal(r)
    \/ \E r \in SysPartialResults : RecvPartial(r)
    \/ \E r \in ErrorResults : RecvError(r)
    \/ SendTerminal
    \/ RemoveWaitingTaskId

Spec == Init /\ [][Next]_vars

\* the same with the dispatch thread scheduled: it goes on running, its
\* wait_for_request returns after 100 ms at the latest and its
\* recv_with_timeout after 5 s; that the engine delivers a result is not
\* guaranteed
SpecFair ==
    /\ Spec
    /\ WF_vars(PollCheck) /\ WF_vars(WaitForRequest) /\ WF_vars(PopPendingRequest)
    /\ WF_vars(RenderPrompt) /\ WF_vars(Tokenize) /\ WF_vars(CreateTask)
    /\ WF_vars(AddWaitingTaskId) /\ WF_vars(PostTask) /\ WF_vars(RecvNull)
    /\ WF_vars(SendTerminal) /\ WF_vars(RemoveWaitingTaskId)

\* ---- one call of process_dds_request, from any request just popped ----------
InitCall ==
    /\ has_meta \in BOOLEAN
    /\ dds_running = TRUE
    /\ pending_requests_ = << >>
    /\ pending_count_ = 1
    /\ readerPc = "idle"
    /\ readerReq = NoRequest
    /\ arrivals = 1
    /\ pollPc = "render"
    /\ dds_req \in ChatCompletionRequest
    /\ task_id = NoTask
    /\ generated_text = <<>>
    /\ prompt_tokens = 0
    /\ completion_tokens = 0
    /\ finish_reason = "stop"
    /\ is_final = FALSE
    /\ elapsed = 0
    /\ next_id = 0
    /\ waiting_task_ids = {}
    /\ posted = {}
    /\ received = <<>>
    /\ sent = <<>>
    /\ outcome = "running"
    /\ ClientOff
    /\ QueueIdle
    /\ BridgeServing
    /\ CodecIdle
    /\ LoopsIdle

NextCall ==
    \/ RenderPrompt
    \/ Tokenize
    \/ CreateTask
    \/ AddWaitingTaskId
    \/ PostTask
    \/ RecvNull
    \/ \E r \in FinalResults : RecvFinal(r)
    \/ \E r \in PartialResults : RecvPartial(r)
    \/ \E r \in ErrorResults : RecvError(r)
    \/ SendTerminal
    \/ RemoveWaitingTaskId

SpecCall == InitCall /\ [][NextCall]_vars

\* ---- the DDS clients: waiting for the answer to one request -------------------
\* samples delivered to the client's response reader in one run
MaxSamples == 3

Clients == {"send_one", "send_stream", "test_client"}
\* a sample of the response topic as dds_take hands it out; request_id 0 is a
\* null pointer
WireResponses == [request_id : {0} \cup Ids, is_final : BOOLEAN, valid_data : BOOLEAN]

\* the client has written its request with a fresh req_id and starts to wait
InitClient ==
    /\ ServerInit
    /\ client \in Clients
    /\ req_id \in Ids
    /\ reader = <<>>
    /\ delivered = 0
    /\ clientPc = "wait"
    /\ accepted = <<>>
    /\ QueueIdle
    /\ BridgeServing
    /\ CodecIdle
    /\ LoopsIdle

\* the response topic delivers a sample: an answer of the server to this or to
\* another request, history replayed by a TransientLocal writer, a dispose
Deliver(smp) ==
    /\ delivered < MaxSamples
    /\ reader' = Append(reader, smp)
    /\ delivered' = delivered + 1
    /\ UNCHANGED <<serverVars, detailVars, client, req_id, clientPc, accepted>>

\* resp->request_id && req_id == resp->request_id
IdMatch(smp, id) == smp.request_id # 0 /\ smp.request_id = id

\* benchmark_final.cpp send_one: one turn of while (!received) with rc > 0
SendOneTake ==
    /\ client = "send_one" /\ clientPc = "wait"
    /\ reader # <<>>
    /\ reader' = Tail(reader)
    /\ IF Head(reader).valid_data /\ IdMatch(Head(reader), req_id) /\ Head(reader).is_final
       THEN /\ accepted' = Append(accepted, Head(reader))
            /\ clientPc' = "answered"
       ELSE UNCHANGED <<accepted, clientPc>>
    /\ UNCHANGED <<serverVars, detailVars, client, req_id, delivered>>

\* benchmark_stream_dds.cpp send_stream: one turn of while (true) with rc > 0
SendStreamTake ==
    /\ client = "send_stream" /\ clientPc = "wait"
    /\ reader # <<>>
    /\ reader' = Tail(reader)
    /\ IF Head(reader).valid_data /\ IdMatch(Head(reader), req_id)
       THEN /\ accepted' = Append(accepted, Head(reader))
            /\ clientPc' = IF Head(reader).is_final THEN "answered" ELSE "wait"
       ELSE UNCHANGED <<accepted, clientPc>>
    /\ UNCHANGED <<serverVars, detailVars, client, req_id, delivered>>

\* test_client.cpp main: the single dds_waitset_wait with rc > 0, then dds_take
TestClientTake ==
    /\ client = "test_client" /\ clientPc = "wait"
    /\ reader # <<>>
    /\ reader' = Tail(reader)
    /\ IF Head(reader).valid_data
       THEN /\ accepted' = Append(accepted, Head(reader))
            /\ clientPc' = "answered"
       ELSE /\ clientPc' = "failed"
            /\ UNCHANGED accepted
    /\ UNCHANGED <<serverVars, detailVars, client, req_id, delivered>>

\* dds_waitset_wait returns rc <= 0: nothing arrived within the timeout
ClientTimeout ==
    /\ clientPc = "wait"
    /\ reader = <<>>
    /\ clientPc' = "timeout"
    /\ UNCHANGED <<serverVars, detailVars, client, req_id, reader, delivered, accepted>>

NextClient ==
    \/ \E smp \in WireResponses : Deliver(smp)
    \/ SendOneTake
    \/ SendStreamTake
    \/ TestClientTake
    \/ ClientTimeout

SpecClient == InitClient /\ [][NextClient]_vars

\* ---- DDSBridge's queue, statement by statement -----------------------------------
\* The actions above take handle_request's insertion and pop_pending_request
\* as one step each; here every statement under mutex_ is a step, the lock and
\* cv_pending_ are explicit, and two threads call the polling helpers.
\* calls of DDSBridge::stop in one run
MaxStops == 2

dispatchVars == <<has_meta, dds_running, pollPc, callVars, queueVars>>

\* variant: the lock is not taken, nothing keeps a second thread out
MutexIgnored == TRUE

\* std::lock_guard / std::unique_lock on mutex_ can take the lock
MutexFree == mutex_ = "free"

\* variant: the request is emplaced, an entry already there is kept
StoreIfAbsent(m, req) ==
    [k \in DOMAIN m \cup {req.request_id} |->
        IF k \in DOMAIN m THEN m[k] ELSE req]

\* pending_requests_[request.request_id] = request
Store(m, req) ==
    [k \in DOMAIN m \cup {req.request_id} |->
        IF k = req.request_id THEN req ELSE m[k]]

\* pending_requests_.erase(it)
Erase(m, k) == [j \in DOMAIN m \ {k} |-> m[j]]

\* variant: handle_request returns without notifying
NotifyNobody(pcs) == {pcs}

\* cv_pending_.notify_one(): the positions the callers can have afterwards; one
\* of the threads blocked on cv_pending_ is woken, if there is one
NotifyOne(pcs) ==
    IF \E c \in Callers : pcs[c] = "blocked"
    THEN {[pcs EXCEPT ![c] = "notified"] : c \in {d \in Callers : pcs[d] = "blocked"}}
    ELSE {pcs}

\* the predicate of cv_pending_.wait_for
WaitPredicate == DOMAIN pending_requests_ # {} \/ ~running_

\* the requests of the n-th sample the reader thread delivers: sample tells the
\* stored copies of two requests with the same request_id apart
QueueRequests(n) ==
    [request_id : Ids, stream : {FALSE}, max_tokens : {0}, sample : {n}]

\* handle_request: std::lock_guard<std::mutex> lock(mutex_)
HandleRequestLock(req) ==
    /\ readerPc = "idle"
    /\ arrivals < MaxArrivals
    /\ MutexFree
    /\ mutex_' = "reader"
    /\ readerPc' = "locked"
    /\ readerReq' = req
    /\ arrivals' = arrivals + 1
    /\ UNCHANGED <<dispatchVars, otherVars, lifecycleVars, pending_requests_,
                   pending_count_, callPc, popIt, out_request, ret, enqueued, returned>>

\* handle_request: the assignment into the map; the lock_guard's scope ends
HandleRequestStore ==
    /\ readerPc = "locked"
    /\ pending_requests_' = Store(pending_requests_, readerReq)
    /\ enqueued' = Append(enqueued, readerReq)
    /\ mutex_' = "free"
    /\ readerPc' = "inserted"
    /\ UNCHANGED <<dispatchVars, otherVars, lifecycleVars, pending_count_, readerReq,
                   arrivals, callPc, popIt, out_request, ret, returned>>

\* handle_request: pimpl_->inc_pending(); cv_pending_.notify_one()
HandleRequestWake ==
    /\ readerPc = "inserted"
    /\ pending_count_' = pending_count_ + 1
    /\ callPc' \in NotifyOne(callPc)
    /\ readerPc' = "idle"
    /\ readerReq' = NoRequest
    /\ UNCHANGED <<dispatchVars, otherVars, lifecycleVars, pending_requests_, arrivals,
                   mutex_, popIt, out_request, ret, enqueued, returned>>

\* pop_pending_request: std::lock_guard<std::mutex> lock(mutex_)
PopLock(c) ==
    /\ callPc[c] = "idle"
    /\ MutexFree
    /\ mutex_' = c
    /\ callPc' = [callPc EXCEPT ![c] = "pop_locked"]
    /\ UNCHANGED <<dispatchVars, otherVars, lifecycleVars, bridgeVars, popIt,
                   out_request, ret, enqueued, returned>>

\* pop_pending_request: return false if the map is empty, else
\* it = begin(); out_request = it->second
PopTake(c) ==
    /\ callPc[c] = "pop_locked"
    /\ IF DOMAIN pending_requests_ = {}
       THEN /\ ret' = [ret EXCEPT ![c] = "pop_false"]
            /\ callPc' = [callPc EXCEPT ![c] = "idle"]
            /\ mutex_' = "free"
            /\ UNCHANGED <<popIt, out_request>>
       ELSE /\ popIt' = [popIt EXCEPT ![c] = Begin(pending_requests_)]
            /\ out_request' =
                   [out_request EXCEPT ![c] = pending_requests_[Begin(pending_requests_)]]
            /\ callPc' = [callPc EXCEPT ![c] = "pop_found"]
            /\ UNCHANGED <<ret, mutex_>>
    /\ UNCHANGED <<dispatchVars, otherVars, lifecycleVars, bridgeVars, enqueued, returned>>

\* pop_pending_request: pending_requests_.erase(it); return true
PopErase(c) ==
    /\ callPc[c] = "pop_found"
    /\ pending_requests_' = Erase(pending_requests_, popIt[c])
    /\ returned' = Append(returned, [caller |-> c, request |-> out_request[c],
                                     len |-> Len(enqueued)])
    /\ popIt' = [popIt EXCEPT ![c] = 0]
    /\ ret' = [ret EXCEPT ![c] = "pop_true"]
    /\ callPc' = [callPc EXCEPT ![c] = "idle"]
    /\ mutex_' = "free"
    /\ UNCHANGED <<dispatchVars, otherVars, lifecycleVars, pending_count_, readerPc,
                   readerReq, arrivals, out_request, enqueued>>

\* wait_for_request: std::unique_lock<std::mutex> lk(mutex_)
WaitLock(c) ==
    /\ c \in Waiters
    /\ callPc[c] = "idle"
    /\ MutexFree
    /\ mutex_' = c
    /\ callPc' = [callPc EXCEPT ![c] = "wait_first"]
    /\ UNCHANGED <<dispatchVars, otherVars, lifecycleVars, bridgeVars, popIt,
                   out_request, ret, enqueued, returned>>

\* wait_for: the predicate is tested with the lock held; true: return; false:
\* the thread blocks on cv_pending_ and gives the lock up
WaitTest(c) ==
    /\ callPc[c] \in {"wait_first", "wait_woken", "wait_spurious"}
    /\ IF WaitPredicate
       THEN /\ callPc' = [callPc EXCEPT ![c] = "idle"]
            /\ ret' = [ret EXCEPT ![c] = callPc[c]]
       ELSE /\ callPc' = [callPc EXCEPT ![c] = "blocked"]
            /\ UNCHANGED ret
    /\ mutex_' = "free"
    /\ UNCHANGED <<dispatchVars, otherVars, lifecycleVars, bridgeVars, popIt,
                   out_request, enqueued, returned>>

\* wait_for: a notified thread takes the lock again, to test the predicate
WaitWake(c) ==
    /\ callPc[c] = "notified"
    /\ MutexFree
    /\ mutex_' = c
    /\ callPc' = [callPc EXCEPT ![c] = "wait_woken"]
    /\ UNCHANGED <<dispatchVars, otherVars, lifecycleVars, bridgeVars, popIt,
                   out_request, ret, enqueued, returned>>

\* wait_for: a spurious wake-up of std::condition_variable
WaitSpurious(c) ==
    /\ callPc[c] = "blocked"
    /\ MutexFree
    /\ mutex_' = c
    /\ callPc' = [callPc EXCEPT ![c] = "wait_spurious"]
    /\ UNCHANGED <<dispatchVars, otherVars, lifecycleVars, bridgeVars, popIt,
                   out_request, ret, enqueued, returned>>

\* wait_for: the timeout passes; the lock is taken again, the predicate's value
\* is returned by wait_for and dropped by wait_for_request
WaitTimeout(c) ==
    /\ callPc[c] \in {"blocked", "notified"}
    /\ MutexFree
    /\ callPc' = [callPc EXCEPT ![c] = "idle"]
    /\ ret' = [ret EXCEPT ![c] = "wait_timeout"]
    /\ UNCHANGED <<dispatchVars, otherVars, lifecycleVars, bridgeVars, mutex_, popIt,
                   out_request, enqueued, returned>>

\* DDSBridge::stop: running_ = false, then pimpl_->stop()
BridgeStop ==
    /\ mainPc \in {"serving", "stopped"}
    /\ stops < MaxStops
    /\ running_' = FALSE
    /\ stops' = stops + 1
    /\ mainCall' = "stop"
    /\ mainPc' = "impl_stop"
    /\ UNCHANGED <<serverVars, otherVars, queueDetailVars, startVars, impl_running_,
                   transport_running_, worker_thread_, reader_thread_, entity,
                   deletes, joins, model_ready_, total_slots_, published, sendPc, sends>>

InitQueue ==
    /\ ServerInit
    /\ has_meta = TRUE
    /\ ClientOff
    /\ QueueIdle
    /\ BridgeServing
    /\ CodecIdle
    /\ LoopsIdle

NextQueue ==
    \/ \E req \in QueueRequests(arrivals + 1) : HandleRequestLock(req)
    \/ HandleRequestStore
    \/ HandleRequestWake
    \/ \E c \in Callers : PopLock(c)
    \/ \E c \in Callers : PopTake(c)
    \/ \E c \in Callers : PopErase(c)
    \/ \E c \in Callers : WaitLock(c)
    \/ \E c \in Callers : WaitTest(c)
    \/ \E c \in Callers : WaitWake(c)
    \/ \E c \in Callers : WaitSpurious(c)
    \/ \E c \in Callers : WaitTimeout(c)
    \/ BridgeStop

SpecQueue == InitQueue /\ [][NextQueue]_vars

\* ---- the bridge's life: start, heartbeat, in-flight counter, stop ------------------
\* calls of DDSBridge::send_response in one run
MaxSends == 3
\* largest n_parallel passed to set_model_info
MaxParallel == 2

\* what a stop acts on
stopState == <<running_, impl_running_, transport_running_, worker_thread_,
               reader_thread_, entity, deletes, joins>>
statusVars == <<model_ready_, total_slots_, published>>
nonLifecycle == <<serverVars, otherVars, queueDetailVars>>

Max(a, b) == IF a >= b THEN a ELSE b

\* if (*e > 0)
Live(h) == h > 0

\* variant: the handle is left as it was after dds_delete
AfterDeleteKept(h) == h

\* *e = 0
AfterDelete(h) == 0

\* the entity members after the loop of DDSTransportImpl::stop
StopEntities(ent) ==
    [e \in Entities |-> IF Live(ent[e]) THEN AfterDelete(ent[e]) ELSE ent[e]]
\* the dds_delete calls after that loop
StopDeletes(ent, del) ==
    [e \in Entities |-> IF Live(ent[e]) THEN del[e] + 1 ELSE del[e]]

\* the members that loop passes to dds_delete, in the order of the calls
StopLog(ent) == SelectSeq(EntityOrder, LAMBDA e : Live(ent[e]))

\* std::thread::joinable(): started and not yet joined
Joinable(t) == t \notin {"none", "joined"}

\* variant: the counter is decremented whatever it holds
DecGuardNone(count) == TRUE

\* dec_pending: if (pending_count_.load() > 0)
DecGuard(count) == count > 0

\* the ServerStatus the heartbeat builds under status_mutex_
StatusSnapshot ==
    ServerStatus(Max(0, total_slots_ - pending_count_), pending_count_, model_ready_)

\* the requests the reader thread delivers in the runs of the bridge's life
BridgeRequests == {r \in ChatCompletionRequest : ~r.stream /\ r.max_tokens = 0}

\* the members a start call has created when the creations go through order
\* one at a time, each tested right after it: fail = k, the k-th returns a
\* negative handle and nothing after it is created; fail = 0 or beyond the
\* last, all are created
Made(order, fail) ==
    {order[i] : i \in {j \in 1..Len(order) : fail = 0 \/ j < fail}}

\* the entity members after the creations, reached the members the call got
\* to: a new handle, negative when the creation failed, replaces whatever the
\* member held
Assigned(ent, made, reached) ==
    [e \in Entities |-> IF e \in made THEN 1 ELSE IF e \in reached THEN -1 ELSE ent[e]]
Counted(cr, made) == [e \in Entities |-> IF e \in made THEN cr[e] + 1 ELSE cr[e]]

\* DDSBridge::start (init() done): DDSTransport::start_server sets its running_
\* and DDSTransportImpl::start_server creates the entities in order; fail = k:
\* the k-th creation returns a negative handle and start returns false at
\* once; fail = Len + 1: starting the reader thread throws, the handler calls
\* stop(); fail = 0: both threads run
BridgeStart(fail) ==
    /\ mainPc = "constructed"
    /\ facade_running_' = TRUE
    /\ starts' = starts + 1
    /\ startRet' = IF fail = 0 THEN "true" ELSE "false"
    /\ creates' = Counted(creates, Made(ServerEntityOrder, fail))
    /\ UNCHANGED response_reader_thread_
    /\ LET n == Len(ServerEntityOrder)
           created == Assigned(entity, Made(ServerEntityOrder, fail),
                               Made(ServerEntityOrder, fail + 1))
       IN
       IF fail = 0
       THEN /\ entity' = created
            /\ transport_running_' = TRUE
            /\ reader_thread_' = "running"
            /\ impl_running_' = TRUE
            /\ worker_thread_' = "loop"
            /\ running_' = TRUE
            /\ mainPc' = "started"
            /\ UNCHANGED deletes
       ELSE /\ entity' = IF fail > n THEN StopEntities(created) ELSE created
            /\ deletes' = IF fail > n THEN StopDeletes(created, deletes) ELSE deletes
            /\ mainPc' = "start_failed"
            /\ UNCHANGED <<transport_running_, reader_thread_, impl_running_,
                           worker_thread_, running_>>
    /\ deleteLog' = IF fail > Len(ServerEntityOrder)
                    THEN StopLog(Assigned(entity, Made(ServerEntityOrder, fail),
                                          Made(ServerEntityOrder, fail + 1)))
                    ELSE deleteLog
    /\ UNCHANGED <<serverVars, clientVars, codecVars, queueDetailVars, readLoopVars,
                   infoVars, mainCall, stops, joins, statusVars, sendPc, sends>>

\* main, model mode: dds_bridge->set_model_info(name, true, params.n_parallel),
\* then the poll thread is started
SetModelInfo(n_parallel) ==
    /\ mainPc = "started"
    /\ has_meta
    /\ model_loaded_' = "m"
    /\ model_ready_' = TRUE
    /\ total_slots_' = Max(1, n_parallel)
    /\ infoCalls' = infoCalls \cup {<<model_loaded_', model_ready_', total_slots_'>>}
    /\ mainPc' = "serving"
    /\ UNCHANGED <<serverVars, clientVars, codecVars, queueDetailVars, deleteLog,
                   readLoopVars, status_mutex_, setCall, status, startVars, mainCall,
                   stops, stopState, published, sendPc, sends>>

\* DDSBridgeImpl::stop: running_ = false
ImplStopFlag ==
    /\ mainPc = "impl_stop"
    /\ impl_running_' = FALSE
    /\ mainPc' = "impl_join"
    /\ UNCHANGED <<nonLifecycle, startVars, mainCall, stops, running_, transport_running_,
                   worker_thread_, reader_thread_, entity, deletes, joins,
                   statusVars, sendPc, sends>>

\* DDSBridgeImpl::stop: if (worker_thread_.joinable()) worker_thread_.join();
\* join returns when the thread has ended
ImplStopJoin ==
    /\ mainPc = "impl_join"
    /\ IF Joinable(worker_thread_)
       THEN /\ worker_thread_ = "exited"
            /\ worker_thread_' = "joined"
            /\ joins' = [joins EXCEPT !["worker_thread_"] = @ + 1]
       ELSE UNCHANGED <<worker_thread_, joins>>
    /\ mainPc' = "transport_stop"
    /\ UNCHANGED <<nonLifecycle, startVars, mainCall, stops, running_, impl_running_,
                   transport_running_, reader_thread_, entity, deletes,
                   statusVars, sendPc, sends>>

\* DDSTransport::stop_server or stop_client: running_ = false; then
\* DDSTransportImpl::stop: running_ = false. The destructor and start's
\* exception handler call DDSTransportImpl::stop directly
TransportStop ==
    /\ mainPc = "transport_stop"
    /\ facade_running_' = IF mainCall \in {"dtor_transport", "start_catch"}
                          THEN facade_running_ ELSE FALSE
    /\ transport_running_' = FALSE
    /\ mainPc' = "transport_join"
    /\ UNCHANGED <<nonLifecycle, response_reader_thread_, creates, starts, startRet, mainCall, stops, running_, impl_running_,
                   worker_thread_, reader_thread_, entity, deletes, joins,
                   statusVars, sendPc, sends>>

\* DDSTransportImpl::stop: the two joinable() tests and joins; a join returns
\* when the thread has ended
TransportJoin ==
    /\ mainPc = "transport_join"
    /\ Joinable(reader_thread_) => reader_thread_ = "exited"
    /\ Joinable(response_reader_thread_) => response_reader_thread_ = "exited"
    /\ reader_thread_' = IF Joinable(reader_thread_) THEN "joined" ELSE reader_thread_
    /\ response_reader_thread_' =
           IF Joinable(response_reader_thread_) THEN "joined" ELSE response_reader_thread_
    /\ joins' = [t \in Threads |->
           IF \/ t = "reader_thread_" /\ Joinable(reader_thread_)
              \/ t = "response_reader_thread_" /\ Joinable(response_reader_thread_)
           THEN joins[t] + 1 ELSE joins[t]]
    /\ mainPc' = "transport_delete"
    /\ UNCHANGED <<nonLifecycle, facade_running_, creates, starts, startRet, mainCall,
                   stops, running_, impl_running_, transport_running_, worker_thread_,
                   entity, deletes, statusVars, sendPc, sends>>

\* DDSTransportImpl::stop: the loop over the entity members; then the call
\* that led here returns
TransportDelete ==
    /\ mainPc = "transport_delete"
    /\ entity' = StopEntities(entity)
    /\ deletes' = StopDeletes(entity, deletes)
    /\ deleteLog' = StopLog(entity)
    /\ mainPc' = CASE mainCall = "stop" -> "stopped"
                   [] mainCall = "dtor_impl" -> "impl_destroyed"
                   [] mainCall = "start_catch" -> "start_failed"
                   [] OTHER -> "destroyed"
    /\ UNCHANGED <<serverVars, clientVars, codecVars, queueDetailVars, readLoopVars,
                   infoVars, startVars, mainCall, stops, running_, impl_running_,
                   transport_running_, worker_thread_, reader_thread_, joins,
                   statusVars, sendPc, sends>>

\* ~DDSBridge destroys pimpl_: ~DDSBridgeImpl() { stop(); }
DestroyBridgeImpl ==
    /\ mainPc \in {"stopped", "start_failed"}
    /\ mainCall' = "dtor_impl"
    /\ mainPc' = "impl_stop"
    /\ UNCHANGED <<nonLifecycle, startVars, stops, stopState, statusVars, sendPc, sends>>

\* ~DDSBridgeImpl destroys transport_: ~DDSTransportImpl() { stop(); }
DestroyTransportImpl ==
    /\ mainPc = "impl_destroyed"
    /\ mainCall' = "dtor_transport"
    /\ mainPc' = "transport_stop"
    /\ UNCHANGED <<nonLifecycle, startVars, stops, stopState, statusVars, sendPc, sends>>

\* heartbeat thread: while (running_)
WorkerLoop ==
    /\ worker_thread_ = "loop"
    /\ worker_thread_' = IF impl_running_ THEN "sleeping" ELSE "exited"
    /\ UNCHANGED <<nonLifecycle, startVars, mainPc, mainCall, stops, running_, impl_running_,
                   transport_running_, reader_thread_, entity, deletes, joins,
                   statusVars, sendPc, sends>>

\* heartbeat thread: the 5 seconds are over; if (!running_) break; the
\* snapshot; publish_status, which returns at once without a status writer
WorkerPublish ==
    /\ worker_thread_ = "sleeping"
    /\ IF impl_running_
       THEN /\ published' = IF Live(entity["status_writer_"])
                            THEN StatusSnapshot ELSE published
            /\ worker_thread_' = "loop"
       ELSE /\ worker_thread_' = "exited"
            /\ UNCHANGED published
    /\ UNCHANGED <<nonLifecycle, startVars, mainPc, mainCall, stops, running_, impl_running_,
                   transport_running_, reader_thread_, entity, deletes, joins,
                   model_ready_, total_slots_, sendPc, sends>>

\* read_loop takes a sample and calls request_callback_; between two tests of
\* running_ it takes at most one, the model lets it take any number
ReadLoopTake(req) ==
    /\ reader_thread_ = "running"
    /\ HandleRequestInsert(req)

\* the callback goes on to its end
ReadLoopCallback ==
    /\ reader_thread_ = "running"
    /\ HandleRequestNotify

\* variant: the loop is left on an error only, the flag is not tested
ReadLoopExitOnError(err) ==
    /\ reader_thread_ = "running"
    /\ readerPc = "idle"
    /\ err
    /\ reader_thread_' = "exited"
    /\ UNCHANGED <<nonLifecycle, startVars, mainPc, mainCall, stops, running_, impl_running_,
                   transport_running_, worker_thread_, entity, deletes, joins,
                   statusVars, sendPc, sends>>

\* read_loop ends: running_ is false at the loop head, or (err) the waitset
\* could not be made or dds_waitset_wait failed
ReadLoopExit(err) ==
    /\ reader_thread_ = "running"
    /\ readerPc = "idle"
    /\ err \/ ~transport_running_
    /\ reader_thread_' = "exited"
    /\ UNCHANGED <<nonLifecycle, startVars, mainPc, mainCall, stops, running_, impl_running_,
                   transport_running_, worker_thread_, entity, deletes, joins,
                   statusVars, sendPc, sends>>

\* DDSBridge::send_response, called by the dispatch thread: dec_pending reads
\* the counter
SendResponseLoad ==
    /\ sendPc = "idle"
    /\ sends < MaxSends
    /\ mainPc \in {"started", "serving"}
    /\ sendPc' = IF DecGuard(pending_count_) THEN "sub" ELSE "skip"
    /\ UNCHANGED <<nonLifecycle, startVars, mainPc, mainCall, stops, stopState, statusVars, sends>>

\* DDSBridge::send_response: fetch_sub(1) if the counter was positive, then the
\* response goes to the transport
SendResponseWrite ==
    /\ sendPc \in {"sub", "skip"}
    /\ pending_count_' = IF sendPc = "sub" THEN pending_count_ - 1 ELSE pending_count_
    /\ sendPc' = "idle"
    /\ sends' = sends + 1
    /\ UNCHANGED <<dispatchVars, otherVars, queueDetailVars, pending_requests_, readerPc,
                   readerReq, arrivals, mainPc, mainCall, stops, stopState, statusVars,
                   startVars>>

\* the bridge constructed and init() called, before start()
InitBridge ==
    /\ ServerInit
    /\ ClientOff
    /\ QueueIdle
    /\ mainPc = "constructed"
    /\ mainCall = "none"
    /\ stops = 0
    /\ running_ = FALSE
    /\ impl_running_ = FALSE
    /\ transport_running_ = FALSE
    /\ worker_thread_ = "none"
    /\ reader_thread_ = "none"
    /\ entity = [e \in Entities |-> 0]
    /\ deletes = [e \in Entities |-> 0]
    /\ joins = [t \in Threads |-> 0]
    /\ model_ready_ = FALSE
    /\ total_slots_ = 1
    /\ published = NoStatus
    /\ sendPc = "idle"
    /\ sends = 0
    /\ facade_running_ = FALSE
    /\ response_reader_thread_ = "none"
    /\ creates = [e \in Entities |-> 0]
    /\ starts = 0
    /\ startRet = "none"
    /\ CodecIdle
    /\ LoopsIdle

NextBridge ==
    \/ \E fail \in 0..(Len(ServerEntityOrder) + 1) : BridgeStart(fail)
    \/ \E n \in 0..MaxParallel : SetModelInfo(n)
    \/ BridgeStop
    \/ ImplStopFlag
    \/ ImplStopJoin
    \/ TransportStop
    \/ TransportJoin
    \/ TransportDelete
    \/ DestroyBridgeImpl
    \/ DestroyTransportImpl
    \/ WorkerLoop
    \/ WorkerPublish
    \/ \E req \in BridgeRequests : ReadLoopTake(req)
    \/ ReadLoopCallback
    \/ \E err \in BOOLEAN : ReadLoopExit(err)
    \/ SendResponseLoad
    \/ SendResponseWrite

SpecBridge == InitBridge /\ [][NextBridge]_vars

\* the same with the scheduling the threads get: the thread inside stop, the
\* heartbeat thread (its sleep_for ends) and the reader thread (its
\* dds_waitset_wait returns after 500 ms at the latest, the callback it is in
\* returns) all go on running; that a sample arrives or a call fails is not
\* guaranteed
SpecBridgeFair ==
    /\ SpecBridge
    /\ WF_vars(ImplStopFlag) /\ WF_vars(ImplStopJoin)
    /\ WF_vars(TransportStop) /\ WF_vars(TransportJoin) /\ WF_vars(TransportDelete)
    /\ WF_vars(WorkerLoop) /\ WF_vars(WorkerPublish)
    /\ WF_vars(ReadLoopCallback) /\ WF_vars(ReadLoopExit(FALSE))

\* ---- the transport used on its own: start, start again, stop ------------------
\* calls of start_server / start_client in one run
MaxStarts == 2

\* the members start_client creates: the participant, tested; the three
\* topics, tested together; writer and readers, tested together
ClientStages ==
    <<{"participant_"},
      {"request_topic_", "response_topic_", "status_topic_"},
      {"request_writer_", "response_reader_", "status_reader_"}>>

\* start_client with the creations in bad returning negative handles: the
\* first stage that holds one of them is the last one reached
Reached(bad) ==
    UNION {ClientStages[i] : i \in {k \in 1..Len(ClientStages) :
                                       \A j \in 1..(k - 1) : ClientStages[j] \cap bad = {}}}

\* the end of both start functions once every entity exists: running_ = true
\* and the loop thread is assigned to the thread member named t. throws: the
\* std::thread constructor throws, the handler calls stop() and start returns
\* false; assigning to a member that is still joinable is std::terminate
StartThread(t, throws) ==
    LET member == IF t = "reader_thread_" THEN reader_thread_ ELSE response_reader_thread_
        started == ~throws /\ ~Joinable(member)
    IN
    /\ transport_running_' = TRUE
    /\ reader_thread_' =
           IF started /\ t = "reader_thread_" THEN "running" ELSE reader_thread_
    /\ response_reader_thread_' =
           IF started /\ t = "response_reader_thread_" THEN "running"
           ELSE response_reader_thread_
    /\ startRet' = IF throws THEN "false" ELSE IF started THEN "true" ELSE "terminate"
    /\ mainCall' = IF throws THEN "start_catch" ELSE mainCall
    /\ mainPc' = IF throws THEN "transport_stop"
                 ELSE IF started THEN "started" ELSE "terminated"

\* a start or a stop can be called whenever the owner is between calls
BetweenCalls == mainPc \in {"constructed", "started", "start_failed", "stopped"}

\* DDSTransport::start_server and DDSTransportImpl::start_server; fail as in
\* BridgeStart
StartServer(fail) ==
    /\ BetweenCalls
    /\ starts < MaxStarts
    /\ starts' = starts + 1
    /\ facade_running_' = TRUE
    /\ entity' = Assigned(entity, Made(ServerEntityOrder, fail),
                          Made(ServerEntityOrder, fail + 1))
    /\ creates' = Counted(creates, Made(ServerEntityOrder, fail))
    /\ IF fail \in 1..Len(ServerEntityOrder)
       THEN /\ startRet' = "false"
            /\ mainPc' = "start_failed"
            /\ UNCHANGED <<mainCall, transport_running_, reader_thread_,
                           response_reader_thread_>>
       ELSE StartThread("reader_thread_", fail # 0)
    /\ UNCHANGED <<nonLifecycle, stops, running_, impl_running_, worker_thread_,
                   deletes, joins, statusVars, sendPc, sends>>

\* DDSTransport::start_client and DDSTransportImpl::start_client; bad: the
\* creations that return a negative handle; throws: no thread can be started
StartClient(bad, throws) ==
    /\ BetweenCalls
    /\ starts < MaxStarts
    /\ starts' = starts + 1
    /\ facade_running_' = TRUE
    /\ entity' = Assigned(entity, Reached(bad) \ bad, Reached(bad))
    /\ creates' = Counted(creates, Reached(bad) \ bad)
    /\ IF bad # {}
       THEN /\ startRet' = "false"
            /\ mainPc' = "start_failed"
            /\ UNCHANGED <<mainCall, transport_running_, reader_thread_,
                           response_reader_thread_>>
       ELSE StartThread("response_reader_thread_", throws)
    /\ UNCHANGED <<nonLifecycle, stops, running_, impl_running_, worker_thread_,
                   deletes, joins, statusVars, sendPc, sends>>

\* DDSTransport::stop_server or stop_client is called
StopTransport ==
    /\ BetweenCalls
    /\ stops < MaxStops
    /\ stops' = stops + 1
    /\ mainCall' = "stop"
    /\ mainPc' = "transport_stop"
    /\ UNCHANGED <<nonLifecycle, startVars, stopState, statusVars, sendPc, sends>>

\* client_response_loop ends: running_ is false at the loop head, or (err) the
\* waitset could not be made or dds_waitset_wait failed
ClientLoopExit(err) ==
    /\ response_reader_thread_ = "running"
    /\ err \/ ~transport_running_
    /\ response_reader_thread_' = "exited"
    /\ UNCHANGED <<nonLifecycle, facade_running_, creates, starts, startRet, mainPc,
                   mainCall, stops, stopState, statusVars, sendPc, sends>>

NextTransport ==
    \/ \E fail \in 0..(Len(ServerEntityOrder) + 1) : StartServer(fail)
    \/ \E e \in Reached({}), throws \in BOOLEAN :
          \E bad \in {{}, {e}} : StartClient(bad, throws)
    \/ StopTransport
    \/ TransportStop
    \/ TransportJoin
    \/ TransportDelete
    \/ \E err \in BOOLEAN : ReadLoopExit(err)
    \/ \E err \in BOOLEAN : ClientLoopExit(err)

SpecTransport == InitBridge /\ [][NextTransport]_vars

\* ---- conversions between native and IDL C records, generate_uuid -----------------
\* most messages in a request, most stop words, most free_llama_* calls on one
\* record
MaxMessages == 2
MaxStopWords == 2
MaxFrees == 2

\* text: std::string contents without an embedded NUL, as the IDL string type
\* carries them
Texts == {"", "a"}

\* a char* or buffer pointer: null, or pointing at what it holds
nullptr == [null |-> TRUE]
Ptr(v) == [null |-> FALSE, at |-> v]

\* p ? p : ""
Str(p) == IF p.null THEN "" ELSE p.at

\* std::optional<T>: <<>> is std::nullopt, <<v>> holds v.
\* llama_dds::ChatCompletionRequest, all its fields
NativeRequests ==
    [kind : {"request"}, request_id : Texts, model : {"m"}, temperature : {0},
     max_tokens : {1}, stream : BOOLEAN,
     messages : UNION {[1..k -> [role : {"user"}, content : Texts]] : k \in 0..MaxMessages},
     top_p : {<<>>, <<1>>}, n : {<<>>, <<2>>},
     stop : {<<>>} \cup {<<v>> : v \in UNION {[1..k -> Texts] : k \in 0..MaxStopWords}}]

\* llama_dds::ChatCompletionResponse, all its fields
NativeResponses ==
    [kind : {"response"}, request_id : Texts, model : {"m"}, content : Texts,
     finish_reason : {<<>>, <<"">>, <<"stop">>}, is_final : BOOLEAN,
     prompt_tokens : {1}, completion_tokens : {0, 2}]

\* malloc(sizeof(T) * count) filled with elems: for a size of 0 it returns what
\* the C library chooses (zero), a null pointer or a pointer to nothing
Malloc(elems, zero) == IF Len(elems) = 0 THEN zero ELSE Ptr(elems)

to_chat_message(msg) == [role |-> Str(msg.role), content |-> Str(msg.content)]

to_llama_chat_message(msg) == [role |-> Ptr(msg.role), content |-> Ptr(msg.content)]

\* variant: the optional n is not read back
to_request_without_n(req) ==
    [kind |-> "request",
     request_id |-> Str(req.request_id),
     model |-> Str(req.model),
     temperature |-> req.temperature,
     max_tokens |-> req.max_tokens,
     stream |-> req.stream,
     messages |-> [i \in 1..req.messages._length |->
                      to_chat_message(req.messages._buffer.at[i])],
     top_p |-> IF req.top_p._length > 0 THEN <<req.top_p._buffer.at[1]>> ELSE <<>>,
     n |-> <<>>,
     stop |-> IF req.stop._length > 0
              THEN <<[i \in 1..req.stop._length |-> Str(req.stop._buffer.at[i])]>>
              ELSE <<>>]

to_request(req) ==
    [kind |-> "request",
     request_id |-> Str(req.request_id),
     model |-> Str(req.model),
     temperature |-> req.temperature,
     max_tokens |-> req.max_tokens,
     stream |-> req.stream,
     messages |-> [i \in 1..req.messages._length |->
                      to_chat_message(req.messages._buffer.at[i])],
     top_p |-> IF req.top_p._length > 0 THEN <<req.top_p._buffer.at[1]>> ELSE <<>>,
     n |-> IF req.n._length > 0 THEN <<req.n._buffer.at[1]>> ELSE <<>>,
     stop |-> IF req.stop._length > 0
              THEN <<[i \in 1..req.stop._length |-> Str(req.stop._buffer.at[i])]>>
              ELSE <<>>]

\* zero: what malloc returns for the buffer of an empty sequence
to_llama_request(req, zero) ==
    LET one(opt) == IF opt # <<>>
                    THEN [_maximum |-> 1, _length |-> 1, _buffer |-> Ptr(<<opt[1]>>),
                          _release |-> TRUE]
                    ELSE [_maximum |-> 0, _length |-> 0, _buffer |-> nullptr,
                          _release |-> FALSE]
    IN
    [kind |-> "request",
     request_id |-> Ptr(req.request_id),
     model |-> Ptr(req.model),
     temperature |-> req.temperature,
     max_tokens |-> req.max_tokens,
     stream |-> req.stream,
     messages |-> [_maximum |-> Len(req.messages), _length |-> Len(req.messages),
                   _buffer |-> Malloc([i \in 1..Len(req.messages) |->
                                          to_llama_chat_message(req.messages[i])], zero),
                   _release |-> TRUE],
     top_p |-> one(req.top_p),
     n |-> one(req.n),
     stop |-> IF req.stop # <<>>
              THEN [_maximum |-> Len(req.stop[1]), _length |-> Len(req.stop[1]),
                    _buffer |-> Malloc([i \in 1..Len(req.stop[1]) |-> Ptr(req.stop[1][i])],
                                       zero),
                    _release |-> TRUE]
              ELSE [_maximum |-> 0, _length |-> 0, _buffer |-> nullptr,
                    _release |-> FALSE]]

\* variant: an empty finish_reason is read back as absent
to_response_empty_absent(resp) ==
    [kind |-> "response",
     request_id |-> Str(resp.request_id),
     model |-> Str(resp.model),
     content |-> Str(resp.content),
     finish_reason |-> IF resp.finish_reason.null \/ resp.finish_reason.at = ""
                       THEN <<>> ELSE <<resp.finish_reason.at>>,
     is_final |-> resp.is_final,
     prompt_tokens |-> resp.prompt_tokens,
     completion_tokens |-> resp.completion_tokens]

to_response(resp) ==
    [kind |-> "response",
     request_id |-> Str(resp.request_id),
     model |-> Str(resp.model),
     content |-> Str(resp.content),
     finish_reason |-> IF resp.finish_reason.null THEN <<>> ELSE <<resp.finish_reason.at>>,
     is_final |-> resp.is_final,
     prompt_tokens |-> resp.prompt_tokens,
     completion_tokens |-> resp.completion_tokens]

to_llama_response(resp) ==
    [kind |-> "response",
     request_id |-> Ptr(resp.request_id),
     model |-> Ptr(resp.model),
     content |-> Ptr(resp.content),
     finish_reason |-> IF resp.finish_reason # <<>> THEN Ptr(resp.finish_reason[1])
                       ELSE nullptr,
     is_final |-> resp.is_final,
     prompt_tokens |-> resp.prompt_tokens,
     completion_tokens |-> resp.completion_tokens]

\* the pointers free_llama_request / free_llama_response pass to free(), each
\* named by its place in the record: the non-null ones, the strings inside a
\* buffer only when the buffer is not null
Freed(w) ==
    IF w.kind = "request"
    THEN {<<f>> : f \in {g \in {"request_id", "model"} : ~w[g].null}}
         \cup {<<f>> : f \in {g \in {"messages", "top_p", "n", "stop"} : ~w[g]._buffer.null}}
         \cup (IF w.messages._buffer.null THEN {}
               ELSE {<<"messages", i, f>> : i \in 1..w.messages._length,
                                            f \in {"role", "content"}})
         \cup (IF w.stop._buffer.null THEN {}
               ELSE {<<"stop", i, "">> : i \in 1..w.stop._length})
    ELSE {<<f>> : f \in {g \in {"request_id", "model", "content", "finish_reason"} :
                            ~w[g].null}}

\* to_llama_request(native) or to_llama_response(native)
ToLlama(zero) ==
    /\ wirePc = "native"
    /\ wire' = IF native.kind = "request" THEN to_llama_request(native, zero)
               ELSE to_llama_response(native)
    /\ wirePc' = "wire"
    /\ UNCHANGED <<serverVars, clientVars, queueDetailVars, lifecycleVars, loopVars, native, back,
                   frees, uuidPc, bytes, buf>>

\* to_request(wire) or to_response(wire)
ToNative ==
    /\ wirePc = "wire"
    /\ back' = IF wire.kind = "request" THEN to_request(wire) ELSE to_response(wire)
    /\ wirePc' = "back"
    /\ UNCHANGED <<serverVars, clientVars, queueDetailVars, lifecycleVars, loopVars, native, wire,
                   frees, uuidPc, bytes, buf>>

\* free_llama_request(wire) or free_llama_response(wire): the record keeps its
\* pointers, so a further call passes the same pointers to free() again; what
\* the program does after a double free is undefined: it goes on (ub FALSE) or
\* is aborted (ub TRUE)
FreeLlama(ub) ==
    /\ wirePc \in {"wire", "back", "freed"}
    /\ \A p \in DOMAIN frees : frees[p] < MaxFrees
    /\ frees' = [p \in DOMAIN frees \cup Freed(wire) |->
                    (IF p \in DOMAIN frees THEN frees[p] ELSE 0)
                    + (IF p \in Freed(wire) THEN 1 ELSE 0)]
    /\ wirePc' = IF wirePc = "freed" /\ ub THEN "aborted" ELSE "freed"
    /\ UNCHANGED <<serverVars, clientVars, queueDetailVars, lifecycleVars, loopVars, native, wire,
                   back, uuidPc, bytes, buf>>

\* "0123456789abcdef"[d], the digit %x prints for d
Hex(d) == <<"0", "1", "2", "3", "4", "5", "6", "7", "8", "9", "a", "b", "c", "d", "e", "f">>[d + 1]

\* the values of dis(gen) the runs draw for bytes[i .. i+3]; a uint32_t is
\* written as its four bytes, least significant first. For the word that
\* holds bytes[6] and for the one that holds bytes[8] every value of that byte
\* (the other bytes 0), and all bits set; for the first and the last word all
\* bits clear and all bits set
RandomWords(i) ==
    {<<0, 0, 0, 0>>, <<255, 255, 255, 255>>} \cup
    (CASE i = 4 -> {<<0, 0, b, 0>> : b \in 0..255}
       [] i = 8 -> {<<b, 0, 0, 0>> : b \in 0..255}
       [] OTHER -> {})

\* variant: the version and variant bits are set without clearing the others
SetVersionVariantNoMask(b) ==
    [b EXCEPT ![7] = IF (@ \div 64) % 2 = 1 THEN @ ELSE @ + 64,
              ![9] = IF (@ \div 128) % 2 = 1 THEN @ ELSE @ + 128]

\* bytes[6] = (bytes[6] & 0x0F) | 0x40; bytes[8] = (bytes[8] & 0x3F) | 0x80;
\* bytes[k] of the code is b[k + 1]
SetVersionVariant(b) ==
    [b EXCEPT ![7] = (@ % 16) + 64, ![9] = (@ % 64) + 128]

\* snprintf(buf, 37, "%02x%02x%02x%02x-%02x%02x-%02x%02x-%02x%02x-%02x...", ...):
\* two lowercase hex digits per byte, a '-' after bytes 3, 5, 7 and 9; 36
\* characters, which fit
Snprintf(b) ==
    LET x(k) == <<Hex(b[k + 1] \div 16), Hex(b[k + 1] % 16)>>
    IN x(0) \o x(1) \o x(2) \o x(3) \o <<"-">> \o x(4) \o x(5) \o <<"-">>
       \o x(6) \o x(7) \o <<"-">> \o x(8) \o x(9) \o <<"-">>
       \o x(10) \o x(11) \o x(12) \o x(13) \o x(14) \o x(15)

\* generate_uuid, one turn of its loop: val = dis(gen); bytes[i + k] =
\* (val >> 8 * k) & 0xFF, which is the k-th byte of val
GenerateUuidDraw(val) ==
    /\ uuidPc = "draw"
    /\ bytes' = bytes \o <<val[1] % 256, val[2] % 256, val[3] % 256, val[4] % 256>>
    /\ uuidPc' = IF Len(bytes') < 16 THEN "draw" ELSE "format"
    /\ UNCHANGED <<serverVars, clientVars, queueDetailVars, lifecycleVars, loopVars, native, wire,
                   back, frees, wirePc, buf>>

\* generate_uuid: version and variant, snprintf, return
GenerateUuidFormat ==
    /\ uuidPc = "format"
    /\ bytes' = SetVersionVariant(bytes)
    /\ buf' = Snprintf(bytes')
    /\ uuidPc' = "done"
    /\ UNCHANGED <<serverVars, clientVars, queueDetailVars, lifecycleVars, loopVars, native, wire,
                   back, frees, wirePc>>

\* a native record about to be converted, or generate_uuid just entered
InitCodec ==
    /\ ServerInit
    /\ has_meta = TRUE
    /\ ClientOff
    /\ QueueIdle
    /\ BridgeServing
    /\ LoopsIdle
    /\ wire = NoRecord
    /\ back = NoRecord
    /\ frees = <<>>
    /\ bytes = <<>>
    /\ buf = <<>>
    /\ \/ native \in NativeRequests \cup NativeResponses /\ wirePc = "native" /\ uuidPc = "off"
       \/ native = NoRecord /\ wirePc = "off" /\ uuidPc = "draw"

NextCodec ==
    \/ \E zero \in {nullptr, Ptr(<<>>)} : ToLlama(zero)
    \/ ToNative
    \/ \E ub \in BOOLEAN : FreeLlama(ub)
    \/ \E val \in RandomWords(Len(bytes)) : GenerateUuidDraw(val)
    \/ GenerateUuidFormat

SpecCodec == InitCodec /\ [][NextCodec]_vars

\* ---- properties of one process_dds_request call (SpecCall) --------------------
Last(q) == q[Len(q)]
CallReturned == outcome \in {"returned", "tokenize_failed"}
CallEnded == CallReturned \/ outcome = "exception"
\* the task of this call was posted: the call reached its receive loop
TaskPosted == task_id \in posted
EndedByFinal == received # <<>> /\ Last(received).kind = "final"

RECURSIVE Concat(_)
\* the contents of the results of log, concatenated in order
Concat(log) == IF log = <<>> THEN <<>> ELSE Head(log).content \o Concat(Tail(log))

\* C1: every request that reaches the dispatch gets a sequence of samples that
\* all bear its request_id and that ends with exactly one is_final = true
\* sample, nothing following it: no sample but the last is final at any time,
\* and once the processing of the request has ended (by return or otherwise)
\* the last sample is there and is final.
C1_SessionEndsWithOneFinal ==
    /\ \A i \in 1..Len(sent) : sent[i].request_id = dds_req.request_id
    /\ \A i \in 1..(Len(sent) - 1) : ~sent[i].is_final
    /\ CallEnded => (sent # <<>> /\ Last(sent).is_final)

\* C2: stream = false: for any results of the engine the session has exactly
\* one sample, and it is final: none while the receive loop runs, one once the
\* terminal response is sent.
C2_NonStreamOneSample ==
    (~dds_req.stream /\ TaskPosted) =>
        /\ pollPc \in {"recv", "terminal"} => sent = <<>>
        /\ pollPc \in {"remove", "loop"} => (Len(sent) = 1 /\ sent[1].is_final)

C2_Witness ==
    /\ ~dds_req.stream /\ TaskPosted /\ outcome = "returned"
    /\ Len(received) = 3 /\ EndedByFinal
    /\ received[1].content # <<>>
    /\ Len(sent) = 1

\* C3: stream = false: when the final result arrives, the terminal content is
\* the concatenation, in order, of the content of all results received.
C3_NonStreamFullContent ==
    (~dds_req.stream /\ outcome = "returned" /\ EndedByFinal) =>
        Last(sent).content = Concat(received)

\* C4: stream = true: the iteration that receives the final result publishes
\* its content as one is_final = false sample if it is not empty and nothing
\* if it is empty; the terminal response that follows is final, has empty
\* content and the finish reason of the result's stop code.
C4_FinalIteration ==
    (/\ pollPc = "recv" /\ dds_req.stream
     /\ Len(received') = Len(received) + 1
     /\ Last(received').kind = "final")
    => LET r == Last(received') IN
       sent' = IF r.content # <<>>
               THEN Append(sent, [request_id |-> dds_req.request_id,
                                  content |-> r.content, is_final |-> FALSE,
                                  finish_reason |-> NoReason,
                                  prompt_tokens |-> EnginePromptTokens,
                                  completion_tokens |-> r.n_decoded])
               ELSE sent
C4_TerminalAfterFinal ==
    (pollPc = "terminal" /\ pollPc' = "remove" /\ dds_req.stream /\ EndedByFinal)
    => /\ Len(sent') = Len(sent) + 1
       /\ SubSeq(sent', 1, Len(sent)) = sent
       /\ Last(sent').is_final
       /\ Last(sent').content = <<>>
       /\ Last(sent').finish_reason =
              (IF Last(received).stop = "STOP_TYPE_LIMIT" THEN "length" ELSE "stop")
C4_StreamFinal == [][C4_FinalIteration /\ C4_TerminalAfterFinal]_vars

C4_Witness ==
    /\ dds_req.stream /\ outcome = "returned" /\ EndedByFinal
    /\ Last(received).content # <<>>
    /\ Len(sent) >= 2
    /\ sent[Len(sent) - 1].content = Last(received).content
    /\ Last(sent).is_final

\* the partial results of a log that satisfy keep, in order
PartialsOf(log, keep(_)) == SelectSeq(log, LAMBDA r : r.kind = "partial" /\ keep(r))
AnyContent(r) == TRUE
SomeContent(r) == r.content # <<>>
\* the first samples of the session are the chunks of the partial results P
PublishedInOrder(P) ==
    /\ Len(sent) >= Len(P)
    /\ \A i \in 1..Len(P) :
          /\ sent[i].content = P[i].content
          /\ ~sent[i].is_final
          /\ sent[i].completion_tokens = P[i].n_decoded
          /\ sent[i].request_id = dds_req.request_id
    /\ pollPc = "recv" => Len(sent) = Len(P)
    /\ \A i \in (Len(P) + 1)..Len(sent) :
          \/ sent[i].is_final /\ i = Len(sent)
          \/ EndedByFinal /\ i = Len(P) + 1 /\ sent[i].content = Last(received).content

\* C5 as stated: stream = true: every partial result received is published
\* as exactly one sample, in order, before the terminal sample.
C5_EveryPartialPublished ==
    (dds_req.stream /\ TaskPosted) => PublishedInOrder(PartialsOf(received, AnyContent))

\* C5 as amended: stream = true: every partial result with non-empty content
\* is published as exactly one sample {content = chunk, is_final = false,
\* completion_tokens = its n_decoded}, in the order received and before the
\* terminal sample; a partial result with empty content is published as no
\* sample.
C5_NonEmptyPartialsPublished ==
    (dds_req.stream /\ TaskPosted) => PublishedInOrder(PartialsOf(received, SomeContent))

C5_Witness ==
    /\ dds_req.stream /\ outcome = "returned"
    /\ Len(PartialsOf(received, AnyContent)) = 2
    /\ Len(PartialsOf(received, SomeContent)) = 1
    /\ Len(sent) = 2
    /\ ~sent[1].is_final /\ sent[2].is_final

\* n_decoded never goes down along the partial and final results of log
EngineNondecreasing(log) ==
    \A i, j \in 1..Len(log) :
        (i < j /\ log[i].kind # "error" /\ log[j].kind # "error")
            => log[i].n_decoded <= log[j].n_decoded

\* C6: if the engine's n_decoded is nondecreasing along the results of the
\* task, completion_tokens is nondecreasing along the samples of the
\* session, the terminal sample included, however the session ends.
C6_CompletionTokensNondecreasing ==
    EngineNondecreasing(received) =>
        \A i, j \in 1..Len(sent) :
            i < j => sent[i].completion_tokens <= sent[j].completion_tokens

C6_Witness ==
    /\ outcome = "returned" /\ dds_req.stream
    /\ received # <<>> /\ Last(received).kind = "error"
    /\ Len(sent) = 2
    /\ sent[1].completion_tokens > 0
    /\ sent[2].is_final /\ sent[2].completion_tokens = sent[1].completion_tokens

\* C7: every is_final = true sample has a finish_reason; after a final
\* result it is "length" exactly for STOP_TYPE_LIMIT and "stop" otherwise.
C7_FinishReasonSet ==
    /\ \A i \in 1..Len(sent) :
          sent[i].is_final => sent[i].finish_reason \in {"stop", "length", "error"}
    /\ (CallReturned /\ EndedByFinal) =>
          /\ Last(received).stop = "STOP_TYPE_LIMIT" <=> Last(sent).finish_reason = "length"
          /\ Last(received).stop # "STOP_TYPE_LIMIT" <=> Last(sent).finish_reason = "stop"

C7_Witness ==
    /\ outcome = "returned" /\ EndedByFinal
    /\ Last(received).stop = "STOP_TYPE_LIMIT"
    /\ Last(sent).is_final /\ Last(sent).finish_reason = "length"

\* C10: when tokenization fails the call sends exactly one sample, final and
\* with finish_reason "error", and has allocated no task id, registered no
\* waiting id and posted no task.
C10_TokenizeFailure ==
    outcome = "tokenize_failed" =>
        /\ Len(sent) = 1
        /\ sent[1].is_final /\ sent[1].finish_reason = "error"
        /\ sent[1].request_id = dds_req.request_id
        /\ task_id = NoTask /\ next_id = 0
        /\ waiting_task_ids = {} /\ posted = {}

C10_Witness ==
    /\ outcome = "tokenize_failed" /\ pollPc = "loop"
    /\ Len(sent) = 1 /\ sent[1].finish_reason = "error"

\* C11: when the engine returns an error result, the session ends with a
\* single terminal sample: is_final = true, finish_reason "error", content
\* "[Error: <msg>]"; no sample before it is final, with stream = true and
\* with stream = false alike.
C11_ErrorTerminal ==
    (outcome = "returned" /\ received # <<>> /\ Last(received).kind = "error") =>
        /\ sent # <<>>
        /\ Last(sent).is_final
        /\ Last(sent).finish_reason = "error"
        /\ Last(sent).content = <<"[Error: ">> \o Last(received).content \o <<"]">>
        /\ Last(sent).request_id = dds_req.request_id
        /\ \A i \in 1..(Len(sent) - 1) : ~sent[i].is_final

C11_Witness ==
    /\ outcome = "returned" /\ dds_req.stream
    /\ Len(received) = 2 /\ Last(received).kind = "error"
    /\ Len(sent) = 2 /\ ~sent[1].is_final
    /\ sent[2].content = <<"[Error: ", "e", "]">>

\* the receive loop was left by its deadline: no final, error or ending
\* partial result has set is_final
LeftByDeadline ==
    /\ TaskPosted /\ ~is_final
    /\ pollPc \in {"terminal", "remove", "loop"}

\* C12 as stated: when the deadline elapses before a final or error result,
\* the call returns without a terminal sample: no is_final = true sample is
\* sent for the request.
C12_NoTerminalOnDeadline ==
    (LeftByDeadline /\ outcome = "returned") =>
        \A i \in 1..Len(sent) : ~sent[i].is_final

\* C12 as amended: when the deadline elapses before a final or error result,
\* the call leaves the loop and sends exactly one terminal sample: is_final =
\* true, finish_reason "stop", the token counts of the last result, and as
\* content the text of the partial results so far (stream = false) or nothing
\* (stream = true); then it takes the task id out of the waiting set.
C12_TerminalOnDeadline ==
    (LeftByDeadline /\ outcome = "returned") =>
        /\ elapsed > DdsTimeoutSecs
        /\ sent # <<>>
        /\ Last(sent) =
              [request_id |-> dds_req.request_id,
               content |-> IF dds_req.stream THEN <<>> ELSE Concat(received),
               is_final |-> TRUE,
               finish_reason |-> "stop",
               prompt_tokens |-> IF received = <<>> THEN 0 ELSE EnginePromptTokens,
               completion_tokens |->
                   IF received = <<>> THEN 0 ELSE Last(received).n_decoded]
        /\ \A i \in 1..(Len(sent) - 1) : ~sent[i].is_final
        /\ task_id \notin waiting_task_ids

C12_Witness ==
    /\ LeftByDeadline /\ outcome = "returned" /\ ~dds_req.stream
    /\ Len(received) = 2
    /\ Len(sent) = 1 /\ sent[1].is_final
    /\ Len(sent[1].content) = 2

\* C17: DDSBridge::send_response takes one off the in-flight counter only for
\* an is_final = true response; a streamed chunk (is_final = false) leaves
\* the counter as it is.
C17_ChunkKeepsCounter ==
    [][(Len(sent') = Len(sent) + 1 /\ ~Last(sent').is_final)
           => pending_count_' = pending_count_]_vars

\* ---- properties of the whole dispatch (Spec) -----------------------------------
\* C8: each popped request runs on a thread of its own: while one request
\* waits for engine results in its receive loop and another is pending, the
\* poll loop is free to pop the pending one.
C8_PopWhileReceiving ==
    (pollPc = "recv" /\ DOMAIN pending_requests_ # {} /\ dds_running)
        => ENABLED PopPendingRequest

\* C13: no exception leaves process_dds_request: every call returns to
\* dds_poll_loop, which stays alive to serve the requests queued after it.
C13_NoExceptionEscapes ==
    outcome # "exception" /\ pollPc # "terminated"

\* ---- properties of the clients (SpecClient) --------------------------------------
\* C9: a client takes a sample as (part of) the answer to its request only if
\* the sample's request_id is the id of that request; a sample with a null or
\* another id never ends the wait.
C9_ClientAcceptsOnlyOwnId ==
    /\ \A i \in 1..Len(accepted) : accepted[i].request_id = req_id
    /\ clientPc = "answered" => (accepted # <<>> /\ Last(accepted).request_id = req_id)

\* ---- properties of the queue (SpecQueue) --------------------------------------------
\* no stored request has been returned by two pops
ReturnedOnce ==
    \A i, j \in 1..Len(returned) : i # j => returned[i].request # returned[j].request
\* a pop that returns true: what it returns is the entry the map held under
\* that id, and the map afterwards is the map before without that entry
PopRemovedIt ==
    returned' # returned =>
        LET e == Last(returned').request IN
        /\ e.request_id \in DOMAIN pending_requests_
        /\ pending_requests_[e.request_id] = e
        /\ pending_requests_' =
               [k \in DOMAIN pending_requests_ \ {e.request_id} |-> pending_requests_[k]]
\* a pop returns at once, with false, exactly if it finds the map empty
PopFalseOnlyEmpty ==
    \A c \in Callers :
        callPc[c] = "pop_locked" =>
            /\ (callPc'[c] = "idle" /\ ret'[c] = "pop_false")
                   => (DOMAIN pending_requests_ = {} /\ UNCHANGED pending_requests_)
            /\ (callPc'[c] = "pop_found") => DOMAIN pending_requests_ # {}

\* C14: pop_pending_request tests and removes atomically: with handle_request
\* and two threads popping in any interleaving, a stored request is returned
\* by at most one pop, a pop that returns true has removed exactly the entry
\* it returns, and a pop returns false only when the map is empty at that
\* moment.
C14_PopAtomic == [][ReturnedOnce' /\ PopRemovedIt /\ PopFalseOnlyEmpty]_vars

C14_Witness ==
    /\ Len(returned) = 2
    /\ returned[1].caller # returned[2].caller
    /\ \E c \in Callers : ret[c] = "pop_false"

\* among the first n requests stored, r is the last one with its request_id
LatestOfItsId(r, n) ==
    \E i \in 1..n :
        /\ enqueued[i] = r
        /\ \A j \in (i + 1)..n : enqueued[j].request_id # r.request_id

\* C15: a request stored under a request_id that is already pending replaces
\* the entry: the map holds one entry per id, the request stored last under
\* it, and a pop returns the request stored last under its id.
C15_OverwriteKeepsLatest ==
    /\ \A k \in DOMAIN pending_requests_ :
          /\ pending_requests_[k].request_id = k
          /\ LatestOfItsId(pending_requests_[k], Len(enqueued))
    /\ \A i \in 1..Len(returned) : LatestOfItsId(returned[i].request, returned[i].len)

C15_Witness ==
    /\ Len(enqueued) = 2
    /\ enqueued[1].request_id = enqueued[2].request_id
    /\ Len(returned) = 1
    /\ returned[1].request = enqueued[2]
    /\ DOMAIN pending_requests_ = {}

\* wait_for_request returns only with a request pending, with running_ false,
\* or by its timeout
ReturnsOnlyWhen ==
    \A c \in Waiters :
        (/\ callPc[c] \in {"wait_first", "wait_woken", "wait_spurious", "blocked",
                            "notified"}
         /\ callPc'[c] = "idle")
        => \/ DOMAIN pending_requests_ # {}
           \/ ~running_
           \/ ret'[c] = "wait_timeout"
\* a thread is blocked on cv_pending_ with a request pending only while
\* handle_request is between its insertion and its notify_one
NoLostWakeup ==
    \A c \in Waiters :
        (callPc[c] = "blocked" /\ DOMAIN pending_requests_ # {}) => readerPc = "inserted"

\* C16: wait_for_request returns only when a request is pending, running_ is
\* false or the timeout has passed, and no wake-up is lost: a request that
\* handle_request inserts while the dispatch thread enters or is inside
\* wait_for_request is either seen by the predicate test or followed by a
\* notify_one that finds the thread blocked.
C16_NoLostWakeup == [][ReturnsOnlyWhen /\ NoLostWakeup']_vars

C16_Witness ==
    /\ callPc["dispatch"] = "idle" /\ ret["dispatch"] = "wait_woken"
    /\ running_
    /\ DOMAIN pending_requests_ # {}
    /\ readerPc = "idle"

\* ---- properties of the bridge's life (SpecBridge) -----------------------------------
\* publish_status has been called
HasPublished == "none" \notin DOMAIN published

\* C18: every ServerStatus the heartbeat publishes with ready = true has
\* slots_idle + slots_processing = total_slots, the value set_model_info
\* configured, whatever the in-flight counter holds.
C18_SlotsAddUp ==
    (HasPublished /\ published.ready) =>
        published.slots_idle + published.slots_processing = total_slots_

\* C19: every ServerStatus the heartbeat publishes has slots_processing >= 0
\* and slots_idle >= 0, however the increments of handle_request and the
\* decrements of send_response interleave with the heartbeat; the counter it
\* reads is never negative.
C19_SlotsNonNegative ==
    /\ pending_count_ >= 0
    /\ published.slots_processing >= 0
    /\ published.slots_idle >= 0

C19_Witness ==
    /\ HasPublished
    /\ arrivals >= 1 /\ sends >= 2
    /\ pending_count_ = 0
    /\ published.slots_processing = 1

\* no entity has been deleted twice, no thread joined twice
NoDoubleRelease ==
    /\ \A e \in Entities : deletes[e] <= 1
    /\ \A t \in Threads : joins[t] <= 1
\* main is in a stop that follows a completed one: a second DDSBridge::stop,
\* ~DDSBridgeImpl after a stop, ~DDSTransportImpl
LaterStop ==
    \/ stops >= 2
    \/ mainCall = "dtor_impl" /\ stops >= 1
    \/ mainCall = "dtor_transport"

\* C20: stopping is idempotent: a stop after the first (DDSBridge::stop,
\* stop_server, or the stop a destructor calls) changes no flag, thread or
\* entity; no DDS entity is deleted twice and no thread is joined twice.
C20_StopIdempotent ==
    [][NoDoubleRelease' /\ (LaterStop' => UNCHANGED stopState)]_vars

C20_Witness ==
    /\ mainPc = "destroyed" /\ stops = 2
    /\ \A e \in ServerEntities : deletes[e] = 1 /\ entity[e] = 0
    /\ joins["worker_thread_"] = 1 /\ joins["reader_thread_"] = 1


\* ---- properties of the transport used on its own (SpecTransport) ----------------
\* C21: when an entity creation fails inside start_server or start_client,
\* every entity the call created before is released before it returns false:
\* after the return no participant, topic, reader or writer it created is
\* still allocated. (Stated for the first start of a transport, so that
\* every live handle is one the failed call created.)
C21_FailedStartReleases ==
    (mainPc = "start_failed" /\ starts = 1) => \A e \in Entities : ~Live(entity[e])

\* C22: after a start that returned false, is_running() is false and no
\* reader thread runs; is_running() is true only between a start that
\* returned true and the stop that follows it.
C22_FailedStartIdle ==
    /\ (mainPc = "start_failed" /\ starts = 1) =>
           /\ ~facade_running_
           /\ reader_thread_ # "running"
           /\ response_reader_thread_ # "running"
    /\ facade_running_ => startRet = "true"

\* C23: start_server or start_client called on a transport that is running
\* (started, not stopped since) returns false and leaves the entities, the
\* creations made so far, the reader threads and the running flags as they
\* were.
C23_SecondStartRejected ==
    [][(mainPc = "started" /\ starts' # starts) =>
          /\ startRet' = "false"
          /\ UNCHANGED <<entity, creates, reader_thread_, response_reader_thread_,
                         transport_running_, facade_running_>>]_vars

\* ---- properties of DDSBridge::stop against a blocked wait_for_request (SpecQueue) --
\* C24: DDSBridge::stop, having set running_ to false, notifies the
\* condition variable of the pending queue: a thread blocked in
\* wait_for_request when stop clears the flag is notified by stop. (The rest
\* of stop, DDSBridgeImpl::stop and the transport's stop, touches neither the
\* condition variable nor a waiter.)
C24_StopNotifiesWaiter ==
    [][(running_ /\ ~running_') =>
          \A c \in Waiters : callPc[c] = "blocked" => callPc'[c] = "notified"]_vars

\* ---- termination of stop (SpecBridgeFair) ------------------------------------------
\* C25: once DDSBridge::stop has been called on a running bridge, stop
\* returns: the heartbeat thread and the reader thread find their running
\* flag false, leave their loops and are joined. A heartbeat thread that
\* moves while its flag is false moves to its end.
C25_StopTerminates ==
    /\ [][(~impl_running_ /\ worker_thread_ \in {"loop", "sleeping"}
                           /\ worker_thread_' # worker_thread_) =>
             worker_thread_' = "exited"]_vars
    /\ (mainCall = "stop" /\ mainPc = "impl_stop") ~> (mainPc = "stopped")

\* stop has returned after joining both threads, the reader having delivered
\* a request before
C25_Witness ==
    /\ mainPc = "stopped"
    /\ joins["worker_thread_"] = 1
    /\ joins["reader_thread_"] = 1
    /\ arrivals > 0

\* ---- the end of dds_poll_loop (SpecFair) -------------------------------------------
\* C26: once dds_running is false, dds_poll_loop begins no further iteration
\* (from its loop head it goes nowhere but to its end), and the dispatch
\* thread ends: it reaches the end of dds_poll_loop, unless the
\* process_dds_request call in progress does not return (an exception leaves
\* the thread, which ends the process).
C26_PollLoopExits ==
    /\ [][(~dds_running /\ pollPc = "loop") => pollPc' \in {"loop", "stopped"}]_vars
    /\ ~dds_running ~> pollPc \in {"stopped", "terminated"}

\* the flag is false and the thread has ended after a call that answered a
\* request
C26_Witness ==
    /\ ~dds_running
    /\ pollPc = "stopped"
    /\ outcome = "returned"
    /\ sent # <<>>

\* ---- properties of the conversions and of generate_uuid (SpecCodec) ----------------
\* C27: freeing a wire record is idempotent: whatever the calls of
\* free_llama_request or free_llama_response made on one record, no string
\* and no buffer of it is passed to free() more than once (null pointers are
\* skipped, and a second call releases nothing again).
C27_FreeIdempotent == \A p \in DOMAIN frees : frees[p] <= 1

\* C28: for every native request r, whatever the number of its messages and
\* with top_p, n and stop each absent or present, stop possibly an empty
\* list: to_request(to_llama_request(r)) = r, field for field.
C28_RequestRoundTrip == back.kind = "request" => back = native

\* C28 as amended: the same for every r whose stop is absent or a list that
\* is not empty; an r whose stop is present and empty comes back with stop
\* absent and every other field equal.
C28_RequestRoundTripStop ==
    back.kind = "request" =>
        IF native.stop = << <<>> >> THEN back = [native EXCEPT !.stop = <<>>]
        ELSE back = native

\* a request with two messages, top_p, n and stop words has come back equal
C28_Witness ==
    /\ back.kind = "request"
    /\ Len(back.messages) >= 2
    /\ back.top_p # <<>> /\ back.n # <<>>
    /\ back.stop # <<>>
    /\ back = native

\* C29: for every native response r, with finish_reason absent, empty or not
\* empty and is_final either way: to_response(to_llama_response(r)) = r,
\* field for field.
C29_ResponseRoundTrip == back.kind = "response" => back = native

\* a response whose finish_reason is present and empty has come back equal
C29_Witness ==
    /\ back.kind = "response"
    /\ native.finish_reason = <<"">>
    /\ back = native

\* C30: every id generate_uuid returns has 36 characters, '-' at positions 8,
\* 13, 18 and 23 (counted from 0) and lowercase hex digits elsewhere, '4' at
\* position 14 and one of 8, 9, a, b at position 19.
C30_UuidLayout ==
    uuidPc = "done" =>
        /\ Len(buf) = 36
        /\ \A i \in 1..36 :
              IF i \in {9, 14, 19, 24} THEN buf[i] = "-"
              ELSE \E d \in 0..15 : buf[i] = Hex(d)
        /\ buf[15] = "4"
        /\ buf[20] \in {"8", "9", "a", "b"}

\* an id made from random bytes 6 and 8 with every bit set: 0xff became 0x4f
\* and 0xbf
C30_Witness ==
    /\ uuidPc = "done"
    /\ buf[15] = "4" /\ buf[16] = "f"
    /\ buf[20] = "b" /\ buf[21] = "f"

\* ---- the waiting set of the response queue (SpecCall) ---------------------------
\* the terminal sample of the call is on the wire
TerminalSent == sent # <<>> /\ Last(sent).is_final

\* C34: every task id that process_dds_request registers in the waiting set is
\* taken out of it once before the function returns, on every exit path, and
\* only after the terminal sample has been sent: an id leaves the set only in
\* a step taken after the terminal sample, that step removes the id of this
\* call and nothing else, and once the call has ended the set holds no id.
C34_WaitingIdRemoved ==
    [][/\ (waiting_task_ids' # waiting_task_ids /\ pollPc # "add_waiting") =>
              /\ TerminalSent
              /\ task_id \in waiting_task_ids
              /\ waiting_task_ids' = waiting_task_ids \ {task_id}
       /\ CallEnded' => waiting_task_ids' = {}]_vars

\* the call has returned on the deadline path, its id registered and removed
C34_Witness ==
    /\ outcome = "returned" /\ TaskPosted /\ ~is_final
    /\ elapsed > DdsTimeoutSecs
    /\ task_id \notin waiting_task_ids

\* C35: the dispatch allocates the task id, then registers it in the waiting
\* set, and only then posts the task: the id registered is one that
\* get_new_id has handed out, the task posted is the one whose id is in the
\* waiting set, and no id is in the set of posted tasks that was not
\* registered when it was posted.
C35_RegisteredBeforePosted ==
    [][/\ waiting_task_ids' # waiting_task_ids /\ pollPc = "add_waiting" =>
              /\ task_id # NoTask /\ task_id < next_id
              /\ task_id \notin posted
              /\ waiting_task_ids' = waiting_task_ids \cup {task_id}
       /\ posted' # posted =>
              /\ task_id \in waiting_task_ids
              /\ posted' = posted \cup {task_id}]_vars

\* the task is posted and its id is still registered: the receive loop runs
C35_Witness ==
    /\ TaskPosted /\ task_id \in waiting_task_ids
    /\ pollPc = "recv" /\ received # <<>>

\* C39: stream = false: the receive loop ends, and the terminal sample is sent
\* and the task id removed, only after the engine's final result or an error
\* result has been received or the deadline has elapsed; a partial result
\* alone never ends the session, whatever max_tokens is.
C39_PartialNeverEnds ==
    (~dds_req.stream /\ TaskPosted /\ pollPc \in {"terminal", "remove", "loop"}) =>
        \/ elapsed > DdsTimeoutSecs
        \/ received # <<>> /\ Last(received).kind \in {"final", "error"}

\* ---- the in-flight counter in the whole dispatch (Spec) --------------------------
\* C37: under any interleaving of the reader thread (insert, then increment)
\* and the dispatch thread (pop, send_response), the in-flight counter is the
\* number of requests received and not yet answered with a terminal sample.
\* Stated for the first request, once handle_request has returned: the counter
\* is 1 until the terminal sample of the request is sent and 0 from then on.
C37_CounterIsInFlight ==
    (arrivals = 1 /\ readerPc = "idle") =>
        pending_count_ = IF \E i \in 1..Len(sent) : sent[i].is_final THEN 0 ELSE 1

\* ---- the order of stop (SpecTransport) --------------------------------------------
RECURSIVE Reverse(_)
Reverse(q) == IF q = <<>> THEN <<>> ELSE Reverse(Tail(q)) \o <<Head(q)>>

\* a stop deletes entities only when no reader thread is left to be joined
DeletesAfterJoin ==
    deleteLog' # deleteLog =>
        ~Joinable(reader_thread_) /\ ~Joinable(response_reader_thread_)

\* 1 for a writer or reader, 2 for a topic, 3 for the participant
Rank(e) ==
    IF e = "participant_" THEN 3
    ELSE IF e \in {"request_topic_", "response_topic_", "status_topic_"} THEN 2
    ELSE 1

\* C31 as stated: stop_server deletes entities only after the reader thread
\* has been joined, and deletes the entities start_server created in the
\* reverse of the order of their creation: status writer, response writer,
\* request reader, status topic, response topic, request topic, participant.
C31_ReverseOfCreation ==
    [][/\ DeletesAfterJoin
       /\ deleteLog' # deleteLog =>
              SelectSeq(deleteLog', LAMBDA e : e \in ServerEntities)
                  = SelectSeq(Reverse(ServerEntityOrder),
                              LAMBDA e : \E i \in 1..Len(deleteLog') : deleteLog'[i] = e)]_vars

\* C31 as amended: stop_server deletes entities only after the reader thread
\* has been joined, and deletes writers and readers first, then the topics,
\* then the participant, each at most once: every entity goes before the
\* entities it was created from.
C31_EndpointsTopicsParticipant ==
    [][/\ DeletesAfterJoin
       /\ deleteLog' # deleteLog =>
              \A i, j \in 1..Len(deleteLog') :
                  i < j => /\ Rank(deleteLog'[i]) <= Rank(deleteLog'[j])
                           /\ deleteLog'[i] # deleteLog'[j]]_vars

\* a started server has been stopped: its reader thread joined, its seven
\* entities deleted
C31_Witness ==
    /\ joins["reader_thread_"] = 1
    /\ Len(deleteLog) = Len(ServerEntityOrder)
    /\ \A e \in ServerEntities : ~Live(entity[e])

\* ---- DDSTransportImpl::read_loop, statement by statement ---------------------------
\* what the read loop leaves alone apart from the bridge and the lifecycle
readLoopRest == <<clientVars, codecVars, queueDetailVars, deleteLog, infoVars>>
\* the members of lifecycleVars but reader_thread_
readerOwner == <<mainPc, mainCall, stops, running_, impl_running_, transport_running_,
                 worker_thread_, entity, deletes, joins, model_ready_, total_slots_,
                 published, sendPc, sends, startVars>>

\* samples that have reached the request reader so far
Arrived == Len(rhc) + loans.taken

\* a sample of the request topic reaches the request reader (history KEEP_LAST
\* 8, reliable): it is queued behind those not yet taken and the reader's
\* DATA_AVAILABLE status is raised; valid = FALSE is a sample without data (a
\* dispose or unregister); the k-th sample carries request_id k
RequestArrives(valid) ==
    /\ Live(entity["request_reader_"])
    /\ Arrived < MaxArrivals
    /\ rhc' = Append(rhc, [valid_data |-> valid, request_id |-> Arrived + 1])
    /\ data_available' = TRUE
    /\ UNCHANGED <<serverVars, lifecycleVars, readLoopRest, rlPc, loaned, request,
                   loans, callbacks>>

\* while (running_.load(std::memory_order_acquire)); after the loop
\* dds_delete(ws), the thread function returns
ReadLoopRunning ==
    /\ rlPc = "loop"
    /\ rlPc' = IF transport_running_ THEN "wait" ELSE "exited"
    /\ reader_thread_' = IF transport_running_ THEN reader_thread_ ELSE "exited"
    /\ UNCHANGED <<serverVars, readerOwner, readLoopRest, rhc, data_available, loaned,
                   request, loans, callbacks>>

\* rc = dds_waitset_wait(ws, ws_results, 1, DDS_MSECS(500)) with the request
\* reader attached: it returns 1 while the reader's DATA_AVAILABLE status is
\* raised, 0 after 500 ms without it, a negative code on an error (break)
WaitsetWait(rc) ==
    /\ rlPc = "wait"
    /\ rc = 1 => data_available
    /\ rc = 0 => ~data_available
    /\ rlPc' = IF rc > 0 THEN "take" ELSE IF rc = 0 THEN "loop" ELSE "exited"
    /\ reader_thread_' = IF rc < 0 THEN "exited" ELSE reader_thread_
    /\ UNCHANGED <<serverVars, readerOwner, readLoopRest, rhc, data_available, loaned,
                   request, loans, callbacks>>

\* n = dds_take(request_reader_, samples, infos, 1, 1): at most one sample, the
\* oldest, is lent, and taking resets the DATA_AVAILABLE status, also when
\* samples stay behind; err: n < 0, which is logged; n > 0 and
\* !infos[0].valid_data goes straight to the return of the loan
DdsTake(err) ==
    /\ rlPc = "take"
    /\ IF err \/ rhc = <<>>
       THEN /\ rlPc' = "loop"
            /\ UNCHANGED <<rhc, data_available, loaned, loans>>
       ELSE /\ loaned' = <<Head(rhc)>>
            /\ rhc' = Tail(rhc)
            /\ data_available' = FALSE
            /\ loans' = [loans EXCEPT !.taken = @ + 1]
            /\ rlPc' = IF Head(rhc).valid_data THEN "convert" ELSE "return_loan"
    /\ UNCHANGED <<serverVars, lifecycleVars, readLoopRest, request, callbacks>>

\* variant: an exception leaves the loop body past the return of the loan
ToRequestLeak(throws) ==
    /\ rlPc = "convert"
    /\ loaned # <<>>
    /\ request' = IF throws THEN request
                  ELSE [request_id |-> loaned[1].request_id, stream |-> FALSE,
                        max_tokens |-> 0]
    /\ rlPc' = IF throws THEN "loop" ELSE "callback"
    /\ UNCHANGED <<serverVars, lifecycleVars, readLoopRest, rhc, data_available, loaned,
                   loans, callbacks>>

\* auto request = to_request(*req), reading the lent sample; throws: a
\* std::exception (std::bad_alloc from a string or vector), caught at 367
ToRequest(throws) ==
    /\ rlPc = "convert"
    /\ loaned # <<>>
    /\ request' = IF throws THEN request
                  ELSE [request_id |-> loaned[1].request_id, stream |-> FALSE,
                        max_tokens |-> 0]
    /\ rlPc' = IF throws THEN "return_loan" ELSE "callback"
    /\ UNCHANGED <<serverVars, lifecycleVars, readLoopRest, rhc, data_available, loaned,
                   loans, callbacks>>

\* request_callback_(request), which is DDSBridge::handle_request: the request
\* is stored and the in-flight counter incremented; throws: the insertion
\* throws a std::exception, caught at 367
RequestCallback(throws) ==
    /\ rlPc = "callback"
    /\ callbacks' = Append(callbacks, request)
    /\ IF throws
       THEN UNCHANGED <<pending_requests_, pending_count_, arrivals>>
       ELSE /\ pending_requests_' = Store(pending_requests_, request)
            /\ pending_count_' = pending_count_ + 1
            /\ arrivals' = arrivals + 1
    /\ rlPc' = "return_loan"
    /\ UNCHANGED <<has_meta, dds_running, readerPc, readerReq, pollPc, callVars, queueVars,
                   lifecycleVars, readLoopRest, rhc, data_available, loaned, request,
                   loans>>

\* dds_return_loan(request_reader_, samples, n); the body of the loop is over
ReturnLoan ==
    /\ rlPc = "return_loan"
    /\ loaned' = <<>>
    /\ loans' = [loans EXCEPT !.returned = @ + 1]
    /\ request' = NoRequest
    /\ rlPc' = "loop"
    /\ UNCHANGED <<serverVars, lifecycleVars, readLoopRest, rhc, data_available,
                   callbacks>>

NextReadLoop ==
    \/ \E valid \in BOOLEAN : RequestArrives(valid)
    \/ ReadLoopRunning
    \/ \E rc \in {-1, 0, 1} : WaitsetWait(rc)
    \/ \E err \in BOOLEAN : DdsTake(err)
    \/ \E throws \in BOOLEAN : ToRequest(throws)
    \/ \E throws \in BOOLEAN : RequestCallback(throws)
    \/ ReturnLoan
    \/ BridgeStop
    \/ ImplStopFlag
    \/ ImplStopJoin
    \/ TransportStop
    \/ TransportJoin
    \/ TransportDelete
    \/ WorkerLoop
    \/ WorkerPublish

\* the reader thread is scheduled: its waits end (by the status or after 500
\* ms), every statement of the loop body completes and dds_take does not fail
\* for ever; that a sample arrives or that the server is stopped is not
\* guaranteed
SpecReadLoop ==
    /\ Init
    /\ [][NextReadLoop]_vars
    /\ WF_vars(ReadLoopRunning)
    /\ WF_vars(\E rc \in {0, 1} : WaitsetWait(rc))
    /\ SF_vars(DdsTake(FALSE))
    /\ WF_vars(\E throws \in BOOLEAN : ToRequest(throws))
    /\ WF_vars(\E throws \in BOOLEAN : RequestCallback(throws))
    /\ WF_vars(ReturnLoan)

\* C32: in the server read loop every successful take is followed by exactly
\* one return of the loan before the next take or the loop's exit, whether
\* the sample is invalid, the callback returns or the conversion or callback
\* throws: one loan is out from the take to its return and none anywhere
\* else in the loop; the callback only ever receives the copy to_request made
\* of the sample while that sample was still on loan.
C32_LoanReturnedOnce ==
    /\ loans.taken - loans.returned = IF loaned = <<>> THEN 0 ELSE 1
    /\ loaned # <<>> <=> rlPc \in {"convert", "callback", "return_loan"}
    /\ rlPc = "callback" =>
           /\ request # NoRequest
           /\ loaned[1].valid_data
           /\ request.request_id = loaned[1].request_id
    /\ \A i \in 1..Len(callbacks) : callbacks[i] # NoRequest

\* the loop has ended after two takes, one of which reached the callback
C32_Witness ==
    /\ rlPc = "exited"
    /\ loans.returned = 2
    /\ Len(callbacks) = 1

\* the valid sample k is in the reader's cache, not yet taken
InCache(k) == \E i \in 1..Len(rhc) : rhc[i].request_id = k /\ rhc[i].valid_data

MaxInfoCalls == 2

\* what neither set_model_info nor the heartbeat's snapshot touches
infoRest == <<serverVars, clientVars, codecVars, queueDetailVars, deleteLog, readLoopVars,
              startVars, mainPc, mainCall, stops, running_, impl_running_,
              transport_running_, reader_thread_, entity, deletes, joins, sendPc, sends>>

\* variant: the lock is not taken, nothing keeps the other thread out
StatusMutexIgnored == TRUE

\* std::lock_guard<std::mutex> lk(status_mutex_) can be taken
StatusMutexFree == status_mutex_ = "free"

\* set_model_info(model_name, ready, n_parallel) is entered: the lock_guard
SetModelInfoLock(model_name, ready, n_parallel) ==
    /\ mainPc = "started"
    /\ setCall = NoCall
    /\ Cardinality(infoCalls) < MaxInfoCalls
    /\ StatusMutexFree
    /\ status_mutex_' = "main"
    /\ setCall' = [pc |-> "model_loaded_", model_name |-> model_name, ready |-> ready,
                   n_parallel |-> n_parallel]
    /\ infoCalls' = infoCalls \cup {<<model_name, ready, Max(1, n_parallel)>>}
    /\ UNCHANGED <<infoRest, model_loaded_, model_ready_, total_slots_, status,
                   worker_thread_, published>>

\* set_model_info: the three assignments in their order, then the lock_guard
\* goes out of scope
SetModelInfoStep ==
    /\ setCall # NoCall
    /\ model_loaded_' = IF setCall.pc = "model_loaded_" THEN setCall.model_name
                        ELSE model_loaded_
    /\ model_ready_' = IF setCall.pc = "model_ready_" THEN setCall.ready ELSE model_ready_
    /\ total_slots_' = IF setCall.pc = "total_slots_" THEN Max(1, setCall.n_parallel)
                       ELSE total_slots_
    /\ setCall' = CASE setCall.pc = "model_loaded_" -> [setCall EXCEPT !.pc = "model_ready_"]
                    [] setCall.pc = "model_ready_" -> [setCall EXCEPT !.pc = "total_slots_"]
                    [] setCall.pc = "total_slots_" -> [setCall EXCEPT !.pc = "unlock"]
                    [] OTHER -> NoCall
    /\ status_mutex_' = IF setCall.pc = "unlock" THEN "free" ELSE status_mutex_
    /\ UNCHANGED <<infoRest, status, infoCalls, worker_thread_, published>>

\* heartbeat thread: the 5 seconds are over, running_ is still set; ServerStatus
\* status; the lock_guard of the block is taken
HeartbeatLock ==
    /\ worker_thread_ = "sleeping"
    /\ impl_running_
    /\ StatusMutexFree
    /\ status_mutex_' = "worker"
    /\ status' = NoSnapshot
    /\ worker_thread_' = "snapshot"
    /\ UNCHANGED <<infoRest, setCall, model_loaded_, model_ready_, total_slots_,
                   infoCalls, published>>

\* heartbeat thread: the four assignments of the block in their order, then
\* the lock_guard goes out of scope and publish_status(status) is called
HeartbeatStep ==
    /\ worker_thread_ = "snapshot"
    /\ status' =
           CASE status.built = 0 ->
                    [status EXCEPT !.built = 1, !.slots_processing = pending_count_]
             [] status.built = 1 ->
                    [status EXCEPT !.built = 2, !.total = total_slots_,
                                   !.slots_idle = Max(0, total_slots_ - status.slots_processing)]
             [] status.built = 2 ->
                    [status EXCEPT !.built = 3, !.model_loaded = model_loaded_]
             [] status.built = 3 ->
                    [status EXCEPT !.built = 4, !.ready = model_ready_]
             [] OTHER -> status
    /\ status_mutex_' = IF status.built = 4 THEN "free" ELSE status_mutex_
    /\ worker_thread_' = IF status.built = 4 THEN "loop" ELSE worker_thread_
    /\ published' = IF status.built = 4 /\ Live(entity["status_writer_"])
                    THEN ServerStatus(status.slots_idle, status.slots_processing,
                                      status.ready)
                    ELSE published
    /\ UNCHANGED <<infoRest, setCall, model_loaded_, model_ready_, total_slots_, infoCalls>>

NextInfo ==
    \/ BridgeStart(0)
    \/ WorkerLoop
    \/ \E model_name \in {"a", "b"}, ready \in BOOLEAN, n_parallel \in 0..MaxParallel :
          SetModelInfoLock(model_name, ready, n_parallel)
    \/ SetModelInfoStep
    \/ HeartbeatLock
    \/ HeartbeatStep

SpecInfo == InitBridge /\ [][NextInfo]_vars

\* C36: each heartbeat ServerStatus is built from a consistent snapshot:
\* model_loaded, ready and the total_slots used for slots_idle all come from
\* the same set_model_info call (or are all still the values of construction),
\* never a mixture of two calls, under any interleaving of set_model_info
\* with the heartbeat thread.
C36_ConsistentSnapshot ==
    status.built = 4 =>
        <<status.model_loaded, status.ready, status.total>>
            \in infoCalls \cup {<<"", FALSE, 1>>}

\* a heartbeat was built and published after two different set_model_info
\* calls, the first of which it had to wait for
C36_Witness ==
    /\ status.built = 4 /\ worker_thread_ = "loop"
    /\ Cardinality(infoCalls) = 2
    /\ <<status.model_loaded, status.ready, status.total>> \in infoCalls
    /\ published = ServerStatus(status.slots_idle, status.slots_processing, status.ready)

\* ---- the dispatch under requests that keep arriving ---------------------------------
\* largest in-flight counter at which a further request is let in
MaxPending == 2

\* DDSBridge::handle_request as in HandleRequestInsert, for any number of
\* requests: arrivals is counted up to MaxArrivals only
HandleRequestInsertMore(req) ==
    /\ Alive
    /\ readerPc = "idle"
    /\ pending_count_ < MaxPending
    /\ pending_requests_' = Store(pending_requests_, req)
    /\ readerPc' = "inserted"
    /\ readerReq' = req
    /\ arrivals' = IF arrivals < MaxArrivals THEN arrivals + 1 ELSE arrivals
    /\ UNCHANGED <<outsideVars, has_meta, dds_running, pending_count_, pollPc, callVars,
                   queueVars>>

\* process_dds_request for a prompt that does not tokenize: one error
\* response, return
TokenizeFails == Tokenize /\ outcome' = "tokenize_failed"

NextStarve ==
    \/ \E req \in BridgeRequests : HandleRequestInsertMore(req)
    \/ HandleRequestNotify
    \/ Shutdown
    \/ PollCheck
    \/ WaitForRequest
    \/ PopPendingRequest
    \/ RenderPrompt
    \/ TokenizeFails

\* both threads are scheduled; that a request arrives, or that main shuts the
\* dispatch down, is not guaranteed
SpecStarve ==
    /\ Init
    /\ [][NextStarve]_vars
    /\ WF_vars(HandleRequestNotify)
    /\ WF_vars(PollCheck) /\ WF_vars(WaitForRequest) /\ WF_vars(PopPendingRequest)
    /\ WF_vars(RenderPrompt) /\ WF_vars(TokenizeFails)

\* C38: every request inserted into the pending map is eventually popped and
\* processed by dds_poll_loop while the dispatch keeps running and each
\* process_dds_request call returns, even if other requests keep arriving: no
\* pending request is starved.
C38_NoStarvation ==
    \A id \in Ids :
        (id \in DOMAIN pending_requests_) ~>
            \/ id \notin DOMAIN pending_requests_
            \/ ~dds_running
            \/ pollPc = "terminated"

\* ---- main at shutdown ------------------------------------------------------------------
\* model mode, ctx_server.start_loop() has returned: dds_running = false
MainStopPolling ==
    /\ mainPc = "serving"
    /\ has_meta
    /\ dds_running' = FALSE
    /\ mainPc' = "poll_join"
    /\ UNCHANGED <<has_meta, bridgeVars, pollPc, callVars, queueVars, clientVars, codecVars,
                   loopVars, queueDetailVars, startVars, mainCall, stops, stopState,
                   statusVars, sendPc, sends>>

\* model mode: dds_poll_thread.join(), which returns when dds_poll_loop has
\* returned; then dds_bridge->stop() is entered: DDSBridge::running_ = false
MainJoinStop ==
    /\ mainPc = "poll_join"
    /\ pollPc = "stopped"
    /\ joins' = [joins EXCEPT !["dds_poll_thread"] = @ + 1]
    /\ running_' = FALSE
    /\ stops' = stops + 1
    /\ mainCall' = "stop"
    /\ mainPc' = "impl_stop"
    /\ UNCHANGED <<serverVars, otherVars, queueDetailVars, startVars, impl_running_,
                   transport_running_, worker_thread_, reader_thread_, entity,
                   deletes, statusVars, sendPc, sends>>

\* router mode: ctx_http.thread.join() has returned, clean_up(), return 0:
\* nothing has cleared dds_running or joined dds_poll_thread, and the
\* destructor of a joinable std::thread calls std::terminate
RouterReturn ==
    /\ mainPc = "serving"
    /\ ~has_meta
    /\ mainPc' = IF joins["dds_poll_thread"] = 0 THEN "terminated" ELSE "stopped"
    /\ UNCHANGED <<nonLifecycle, startVars, mainCall, stops, stopState, statusVars,
                   sendPc, sends>>

NextMain ==
    \/ \E req \in BridgeRequests : ReadLoopTake(req)
    \/ ReadLoopCallback
    \/ \E err \in BOOLEAN : ReadLoopExit(err)
    \/ PollCheck
    \/ WaitForRequest
    \/ PopPendingRequest
    \/ RenderPrompt
    \/ Tokenize
    \/ CreateTask
    \/ AddWaitingTaskId
    \/ PostTask
    \/ RecvNull
    \/ \E r \in SysFinalResults : RecvFinal(r)
    \/ SendTerminal
    \/ RemoveWaitingTaskId
    \/ WorkerLoop
    \/ WorkerPublish
    \/ MainStopPolling
    \/ MainJoinStop
    \/ RouterReturn
    \/ ImplStopFlag
    \/ ImplStopJoin
    \/ TransportStop
    \/ TransportJoin
    \/ TransportDelete
    \/ DestroyBridgeImpl
    \/ DestroyTransportImpl

SpecMain == Init /\ [][NextMain]_vars

\* main is past the loop it serves in: shutdown has begun
ShuttingDown == mainPc \notin {"serving", "poll_join"}

\* C40: on server shutdown, in model mode and in router mode, dds_running is
\* cleared and the poll thread joined before DDSBridge::stop() is called and
\* before the thread object and the bridge are destroyed: no joinable thread
\* is destroyed, and nothing is sent once the response writer is deleted,
\* because the poll thread has ended by then.
C40_JoinedBeforeStop ==
    /\ mainPc # "terminated"
    /\ ShuttingDown => (~dds_running /\ joins["dds_poll_thread"] = 1)
    /\ ~Live(entity["response_writer_"]) => pollPc = "stopped"

====
